---- MODULE Spec2Model ----
(***************************************************************************)
(* A model of the crawling engine of scraper/searxng_scraper.py:           *)
(* SearxngScraper.search_instance (the per-instance Pager, an async        *)
(* generator), SearxngScraper._parse_results, the statistics dictionary    *)
(* and SearxngScraper.search_multiple_instances (the orchestrator).        *)
(*                                                                         *)
(* One step of the model is one atomic segment of the asyncio code: the    *)
(* code between two suspension points (an awaited request, an awaited      *)
(* sleep, or a yield that hands a result to the consumer).                 *)
(***************************************************************************)
EXTENDS Integers, Sequences, FiniteSets, TLC

\* ---------------------------------------------------------------- bounds
\* Largest page cap a caller passes, and largest number of result pages a
\* modelled site holds.
MaxPages == 2

\* Largest number of result containers on a page handed to the parser.
MaxContainers == 4

\* Largest number of pieces of a URL, and of a title, handed to the
\* classifier.
MaxUrlAtoms == 2

MaxTitleAtoms == 1

\* Largest number of calls of the serialisers on one Query.
MaxCalls == 2

\* Largest number of response-time samples folded into one average.
MaxSamples == 4

\* Largest number of transport sessions one scraper makes.
MaxSessions == 2

\* ------------------------------------------------------------- constants
\* The instance snapshots handed to the scraper (call sites of the Pager).
Inst == {1, 2}

Names == {"A", "B"}

Urls == {"u"}

VARIABLES
    instances,   \* Inst -> SearxngInstanceConfig snapshot (name, url, is_active)
    site,        \* Inst -> what the remote source answers (environment)
    layout,      \* the containers of a page of results (environment)
    query,       \* the SearchQuery object shared by the runs (field pageno)
    stats,       \* SearxngScraper.stats
    pc,          \* Inst -> position of the search_instance generator
    page,        \* Inst -> local variable page of search_instance
    max_pages,   \* Inst -> local variable max_pages of search_instance
    results,     \* Inst -> local variable results (the parsed page)
    idx,         \* Inst -> index in results of the result being yielded
    requests,    \* Inst -> requests issued by the run, in order
    delivered,   \* Inst -> results handed to the consumer, in order
    failKind,    \* Inst -> why the run broke out of the loop on an error
    orch,        \* position of search_multiple_instances
    tasks,       \* Inst -> state of the orchestrator's generator for the instance
    semaphore,   \* free permits of the orchestrator's asyncio.Semaphore
    merged,      \* results search_multiple_instances handed to its consumer
    session,     \* SearxngScraper.session (the transport session)
    sleeps,      \* Inst -> delays the run has awaited, in order
    arg,         \* argument of the pure function under study
    ret          \* <<>> before the function is applied, <<its value>> after

vars == <<instances, site, layout, query, stats, pc, page, max_pages, results, idx,
          requests, delivered, failKind, orch, tasks, semaphore, merged,
          session, sleeps, arg, ret>>

pagerVars == <<pc, page, max_pages, results, idx, requests, delivered, failKind,
               sleeps>>

\* The variables of the pure-function specifications.
funVars == <<arg, ret>>

orchVars == <<orch, tasks, semaphore, merged>>

\* ------------------------------------------------------------ data model
\* Values of SearxngInstanceConfig.rate_limit_delay.
Delays == {1, 2}

InstanceConfigs == [name : Names, url : Urls, is_active : BOOLEAN,
                    rate_limit_delay : Delays]

\* The markup of a page of results: its <article class="result"> containers
\* in document order.  A container either carries an h3 > a with a title
\* and an href ("ok") or lacks one of them ("bad").
Layouts == {<<"ok">>, <<"ok", "ok">>, <<"bad", "ok">>, <<"ok", "bad">>}

\* How a site ends after its last page of results: a 200 page without
\* results (no container, or one container without title link), a non-200
\* status, a timeout or a connection failure.
EndingBodies == {<<>>, <<"bad">>}

Endings == [kind : {"response"}, status : {200}, html : EndingBodies]
           \cup [kind : {"response"}, status : {500}, html : {<<>>}]
           \cup [kind : {"timeout", "connection"}, status : {0}, html : {<<>>}]

\* A site holds `pages` pages of results and then ends with `ending`.  A
\* site that outlasts every page cap never shows its ending.
Sites == {s \in [pages : 0..MaxPages, ending : Endings] :
            s.pages = MaxPages => s.ending.status = 500}

\* What the transport returns for a request carrying page number n; every
\* page of results has the markup `body` (all instances render the theme
\* the requests ask for).
Response(s, body, n) ==
    IF n \in 1..s.pages
    THEN [kind |-> "response", status |-> 200, html |-> body]
    ELSE s.ending

\* f"{instance.name}_{instance.url}"
InstanceKey(instance) == <<instance.name, instance.url>>

Key(i) == InstanceKey(instances[i])

\* The entry search_instance creates for an instance (its counters).
NewInstanceStats == [queries |-> 0, results |-> 0, errors |-> 0]

\* None (as the value of time_range and of file_type).
None == "None"

\* str(n) for an int n >= 0: its decimal digits.
Digit(d) ==
    CASE d = 0 -> "0" [] d = 1 -> "1" [] d = 2 -> "2" [] d = 3 -> "3" [] d = 4 -> "4"
      [] d = 5 -> "5" [] d = 6 -> "6" [] d = 7 -> "7" [] d = 8 -> "8" [] d = 9 -> "9"

RECURSIVE str(_)
str(n) == IF n < 10 THEN <<Digit(n)>> ELSE str(n \div 10) \o <<Digit(n % 10)>>

\* int(s) as the instance reads the digits of a pair.
RECURSIVE int(_)
int(s) ==
    IF s = <<>> THEN 0
    ELSE 10 * int(SubSeq(s, 1, Len(s) - 1))
           + (CHOOSE d \in 0..9 : Digit(d) = s[Len(s)])

\* ','.join(list)
RECURSIVE join(_)
join(list) ==
    IF Len(list) <= 1 THEN list
    ELSE join(SubSeq(list, 1, Len(list) - 1)) \o <<",", list[Len(list)]>>

\* SearchQuery(query=..., ...) with the defaults of the dataclass; None and
\* the empty list are both <<>> for categories and engines (both are falsy,
\* which is all the code asks of them).
DefaultQuery ==
    [query |-> "q", language |-> "en", safesearch |-> 1, time_range |-> None,
     categories |-> <<>>, engines |-> <<>>, format |-> "html", pageno |-> 1]

\* Faulty variant: the key time_range is left out when no range is set.
to_params_OmitsEmptyTimeRange(q) ==
    LET keys == {"q", "language", "safesearch", "pageno", "category_general", "theme"}
                  \cup (IF q.time_range \notin {None, ""} THEN {"time_range"} ELSE {})
                  \cup (IF q.categories # <<>> THEN {"categories"} ELSE {})
                  \cup (IF q.engines # <<>> THEN {"engines"} ELSE {})
    IN  [k \in keys |->
            CASE k = "q" -> q.query
              [] k = "language" -> q.language
              [] k = "safesearch" -> str(q.safesearch)
              [] k = "pageno" -> str(q.pageno)
              [] k = "time_range" -> q.time_range
              [] k = "category_general" -> "1"
              [] k = "theme" -> "simple"
              [] k = "categories" -> join(q.categories)
              [] k = "engines" -> join(q.engines)]

\* SearchQuery.to_params: the pairs of the GET request.
to_params(q) ==
    LET keys == {"q", "language", "safesearch", "pageno", "time_range",
                 "category_general", "theme"}
                  \cup (IF q.categories # <<>> THEN {"categories"} ELSE {})
                  \cup (IF q.engines # <<>> THEN {"engines"} ELSE {})
    IN  [k \in keys |->
            CASE k = "q" -> q.query
              [] k = "language" -> q.language
              [] k = "safesearch" -> str(q.safesearch)
              [] k = "pageno" -> str(q.pageno)
              [] k = "time_range" -> IF q.time_range \notin {None, ""} THEN q.time_range
                                     ELSE ""
              [] k = "category_general" -> "1"
              [] k = "theme" -> "simple"
              [] k = "categories" -> join(q.categories)
              [] k = "engines" -> join(q.engines)]

\* SearchQuery.to_form_data: the fields of the POST body.
to_form_data(q) ==
    [k \in {"q", "category_general", "pageno", "language", "time_range",
             "safesearch", "theme"} |->
        CASE k = "q" -> q.query
          [] k = "category_general" -> "1"
          [] k = "pageno" -> str(q.pageno)
          [] k = "language" -> q.language
          [] k = "time_range" -> IF q.time_range \notin {None, ""} THEN q.time_range
                                 ELSE ""
          [] k = "safesearch" -> str(q.safesearch)
          [] k = "theme" -> "simple"]

\* Faulty variant: the results are collected in reverse document order.
_parse_results_Reversed(html, page_number) ==
    LET IsOk(k) == html[k] = "ok"
        kept == SelectSeq([k \in 1..Len(html) |-> k], IsOk)
    IN  [j \in 1..Len(kept) |->
            [position |-> kept[Len(kept) + 1 - j], page_number |-> page_number]]

\* Faulty variant: every result gets the same position.
_parse_results_SamePosition(html, page_number) ==
    LET IsOk(k) == html[k] = "ok"
        kept == SelectSeq([k \in 1..Len(html) |-> k], IsOk)
    IN  [j \in 1..Len(kept) |-> [position |-> 1, page_number |-> page_number]]

\* Faulty variant: the first container without title or URL ends the loop
\* over the containers.
_parse_results_StopsAtBad(html, page_number) ==
    LET IsOk(k) == \A h \in 1..k : html[h] = "ok"
        kept == SelectSeq([k \in 1..Len(html) |-> k], IsOk)
    IN  [j \in 1..Len(kept) |->
            [position |-> kept[j], page_number |-> page_number]]

\* SearxngScraper._parse_results: a container without title or URL is
\* skipped; position is the index enumerate(result_articles, 1) gives the
\* container.
_parse_results(html, page_number) ==
    LET IsOk(k) == html[k] = "ok"
        kept == SelectSeq([k \in 1..Len(html) |-> k], IsOk)
    IN  [j \in 1..Len(kept) |->
            [position |-> kept[j], page_number |-> page_number]]

\* ------------------------------------------------------- classification
\* A URL or a title is a sequence of pieces of text.  The pieces are chosen
\* so that every string the classifiers search for lies inside one piece.
\* A URL is https:// followed by its pieces: the first piece is its
\* authority, the others make up its path and query.
UrlAtoms == {"example.org", ".pdf", ".PDF", ".docx", ".zip", ".csv",
             "docs.google.com", "DOCS.GOOGLE.COM", "drive.google.com",
             "sheets.google.com", "/document/"}

TitleAtoms == {"report", "[PDF]", "download", "filetype:", ".pdf", ".csv"}

\* The strings searched for that are substrings of the piece a.
Needles(a) ==
    CASE a = ".pdf"  -> {".pdf"}
      [] a = ".docx" -> {".doc", ".docx"}
      [] a = ".zip"  -> {".zip"}
      [] a = ".csv"  -> {".csv"}
      [] a = "[pdf]" -> {"[pdf]"}
      [] a \in {"docs.google.com", "drive.google.com", "sheets.google.com",
                "/document/", "download", "filetype:"} -> {a}
      [] OTHER -> {}

\* str.lower() on a piece.
LowerAtom(a) ==
    CASE a = ".PDF"  -> ".pdf"
      [] a = "[PDF]" -> "[pdf]"
      [] a = "DOCS.GOOGLE.COM" -> "docs.google.com"
      [] OTHER -> a

\* s.lower()
lower(s) == [k \in 1..Len(s) |-> LowerAtom(s[k])]

\* needle in s
str_in(needle, s) == \E k \in 1..Len(s) : needle \in Needles(s[k])

\* urlparse(url).netloc
netloc(url) == url[1]

\* SearxngScraper.file_extensions, in insertion order (the order .items()
\* iterates in); the first component is f'.{ext}'.
file_extensions ==
    << <<".pdf", "pdf">>,
       <<".doc", "document">>, <<".docx", "document">>, <<".odt", "document">>,
       <<".xls", "spreadsheet">>, <<".xlsx", "spreadsheet">>, <<".ods", "spreadsheet">>,
       <<".ppt", "presentation">>, <<".pptx", "presentation">>, <<".odp", "presentation">>,
       <<".txt", "text">>, <<".rtf", "text">>,
       <<".zip", "archive">>, <<".rar", "archive">>, <<".7z", "archive">>,
       <<".mp3", "audio">>, <<".wav", "audio">>, <<".flac", "audio">>,
       <<".mp4", "video">>, <<".avi", "video">>, <<".mkv", "video">>,
       <<".jpg", "image">>, <<".jpeg", "image">>, <<".png", "image">>,
       <<".gif", "image">> >>

\* SearxngScraper.google_patterns (each regular expression matches exactly
\* the strings that contain the host it spells).
google_patterns == {"docs.google.com", "drive.google.com", "sheets.google.com",
                    "slides.google.com", "forms.google.com"}

\* The table of SearchResult._identify_file_type, in insertion order.
SearchResult_file_extensions ==
    << <<".pdf", "PDF">>, <<".doc", "DOC">>, <<".docx", "DOCX">>,
       <<".xls", "XLS">>, <<".xlsx", "XLSX">>, <<".ppt", "PPT">>, <<".pptx", "PPTX">>,
       <<".txt", "TXT">>, <<".rtf", "RTF">>, <<".csv", "CSV">>,
       <<".odt", "ODT">>, <<".ods", "ODS">>, <<".odp", "ODP">>,
       <<".zip", "ZIP">>, <<".rar", "RAR">>, <<".7z", "7Z">> >>

\* The indices of the entries of a table whose '.ext' is in s.
Hits(table, s) == {k \in 1..Len(table) : str_in(table[k][1], s)}

\* The first of a non-empty set of indices.
First(hits) == CHOOSE k \in hits : \A h \in hits : k <= h

\* The words the title is searched for.
TitleWords == {"[pdf]", "[doc]", "[xls]", "filetype:", "download"}

\* Faulty variant: the URL and the title are searched as they are, not
\* lower-cased.
_identify_file_type_CaseSensitive(url, title) ==
    LET hits == Hits(file_extensions, url) IN
    IF hits # {}
    THEN [is_file |-> TRUE, file_type |-> file_extensions[First(hits)][2]]
    ELSE IF \E pat \in google_patterns : str_in(pat, url)
    THEN [is_file |-> TRUE,
          file_type |->
             IF str_in("docs.google.com", url) THEN "google_doc"
             ELSE IF str_in("sheets.google.com", url) THEN "google_sheet"
             ELSE IF str_in("slides.google.com", url) THEN "google_slides"
             ELSE IF str_in("drive.google.com", url) THEN "google_drive"
             ELSE "google_form"]
    ELSE IF \E word \in TitleWords : str_in(word, title)
    THEN [is_file |-> TRUE, file_type |-> "unknown"]
    ELSE [is_file |-> FALSE, file_type |-> None]

\* SearxngScraper._identify_file_type(url, title): the first extension of
\* the table found in the lower-cased URL, else the Google host of the URL
\* (a URL that matches one of the patterns contains one of the five hosts,
\* so the if-chain always returns), else a file word in the lower-cased
\* title, else (False, None).
_identify_file_type(url, title) ==
    LET url_lower == lower(url)
        title_lower == lower(title)
        hits == Hits(file_extensions, url_lower)
    IN
    IF hits # {}
    THEN [is_file |-> TRUE, file_type |-> file_extensions[First(hits)][2]]
    ELSE IF \E pat \in google_patterns : str_in(pat, url_lower)
    THEN [is_file |-> TRUE,
          file_type |->
             IF str_in("docs.google.com", url_lower) THEN "google_doc"
             ELSE IF str_in("sheets.google.com", url_lower) THEN "google_sheet"
             ELSE IF str_in("slides.google.com", url_lower) THEN "google_slides"
             ELSE IF str_in("drive.google.com", url_lower) THEN "google_drive"
             ELSE "google_form"]
    ELSE IF \E word \in TitleWords : str_in(word, title_lower)
    THEN [is_file |-> TRUE, file_type |-> "unknown"]
    ELSE [is_file |-> FALSE, file_type |-> None]

\* SearchResult._identify_file_type(self): the first extension of its table
\* found in the lower-cased URL or title, else the Google kinds.
SearchResult_identify_file_type(self) ==
    LET url_lower == lower(self.url)
        title_lower == lower(self.title)
        hits == Hits(SearchResult_file_extensions, url_lower)
                  \cup Hits(SearchResult_file_extensions, title_lower)
    IN
    IF hits # {}
    THEN [is_file |-> TRUE, file_type |-> SearchResult_file_extensions[First(hits)][2]]
    ELSE IF self.is_google_doc /\ str_in("/document/", self.url)
    THEN [is_file |-> TRUE, file_type |-> "Google Doc"]
    ELSE IF self.is_google_doc /\ str_in("/spreadsheets/", self.url)
    THEN [is_file |-> TRUE, file_type |-> "Google Sheets"]
    ELSE IF self.is_google_doc /\ str_in("/presentation/", self.url)
    THEN [is_file |-> TRUE, file_type |-> "Google Slides"]
    ELSE IF self.is_google_doc /\ str_in("/forms/", self.url)
    THEN [is_file |-> TRUE, file_type |-> "Google Forms"]
    ELSE IF self.is_google_drive
    THEN [is_file |-> TRUE, file_type |-> "Google Drive"]
    ELSE [is_file |-> FALSE, file_type |-> None]

\* Faulty variant: the fallback of __post_init__ assigns the kind it finds
\* and leaves is_file as it was passed.
SearchResult_KeepsFlag(title, url, is_file, file_type) ==
    LET self == [title |-> title, url |-> url,
                 is_file |-> is_file, file_type |-> file_type,
                 is_google_doc |-> url # <<>> /\ str_in("docs.google.com", url),
                 is_google_drive |-> url # <<>> /\ (str_in("drive.google.com", url)
                                                    \/ str_in("docs.google.com", url))]
    IN  IF file_type = None /\ url # <<>>
        THEN [self EXCEPT !.file_type = SearchResult_identify_file_type(self).file_type]
        ELSE self

\* SearchResult(title=..., url=..., is_file=..., file_type=...) with
\* __post_init__: the Google flags are computed from the URL as it is, and
\* the file type is identified again if none was passed.
SearchResult(title, url, is_file, file_type) ==
    LET self == [title |-> title, url |-> url,
                 is_file |-> is_file, file_type |-> file_type,
                 is_google_doc |-> url # <<>> /\ str_in("docs.google.com", url),
                 is_google_drive |-> url # <<>> /\ (str_in("drive.google.com", url)
                                                    \/ str_in("docs.google.com", url))]
    IN  IF file_type = None /\ url # <<>>
        THEN [self EXCEPT !.is_file = SearchResult_identify_file_type(self).is_file,
                          !.file_type = SearchResult_identify_file_type(self).file_type]
        ELSE self

\* _parse_results: is_file, file_type = self._identify_file_type(url, title)
\* followed by result = SearchResult(...).
ClassifiedResult(url, title) ==
    SearchResult(title, url, _identify_file_type(url, title).is_file,
                 _identify_file_type(url, title).file_type)

\* max_pages = max_pages or self.config.scraper.max_pages
\* (None and 0 are both falsy; the configured default is bounded by MaxPages)
DefaultMaxPages == MaxPages

\* Faulty variant: the argument is the cap whatever it is.
EffectiveMaxPages_NoDefault(mp) == mp

EffectiveMaxPages(mp) == IF mp = 0 THEN DefaultMaxPages ELSE mp

\* The request of page p: GET with to_params on page 1, POST with
\* to_form_data afterwards; q is the query after query.pageno = p.
Method_AlwaysGet(p) == "GET"

Method(p) == IF p = 1 THEN "GET" ELSE "POST"

BuildRequest(p, q) ==
    [method |-> Method(p),
     pageno |-> IF p = 1 THEN int(to_params(q)["pageno"])
                ELSE int(to_form_data(q)["pageno"])]

\* Faulty variant: the counter is set to 1 instead of being incremented.
Bump_SetsOne(st, key, counter) ==
    [st EXCEPT !.instance_stats[key][counter] = 1]

\* self.stats['instance_stats'][instance_key][counter] += 1
Bump(st, key, counter) ==
    [st EXCEPT !.instance_stats[key][counter] = @ + 1]

\* Faulty variant: the entry is set to zeros at the start of every run.
EnsureEntry_Resets(st, key) ==
    [st EXCEPT !.instance_stats =
        [k \in DOMAIN st.instance_stats \cup {key} |->
            IF k = key THEN NewInstanceStats ELSE st.instance_stats[k]]]

\* if instance_key not in self.stats['instance_stats']: ... = {...zeros...}
EnsureEntry(st, key) ==
    IF key \in DOMAIN st.instance_stats
    THEN st
    ELSE [st EXCEPT !.instance_stats =
            [k \in DOMAIN st.instance_stats \cup {key} |->
                IF k = key THEN NewInstanceStats ELSE st.instance_stats[k]]]

\* self.session = None after __init__; `created` counts the ClientSession
\* objects made so far.
NoSession == [open |-> FALSE, created |-> 0]

\* Faulty variant: a ClientSession is made on every call.
start_session_AlwaysNew(s) == [open |-> TRUE, created |-> s.created + 1]

\* SearxngScraper.start_session: a ClientSession is made only if there is
\* none or the last one is closed.
start_session(s) ==
    IF s.open THEN s ELSE [open |-> TRUE, created |-> s.created + 1]

\* SearxngScraper.close_session: an open session is closed; with no session
\* or a closed one nothing is done.
close_session(s) ==
    IF s.open THEN [open |-> FALSE, created |-> s.created] ELSE s

\* ------------------------------------------------------------------ Init
Init ==
    /\ instances \in {f \in [Inst -> InstanceConfigs] :
                        \A i \in Inst :
                            /\ f[i].name = IF i = 1 THEN "A" ELSE "B"
                            /\ f[i].rate_limit_delay = i}
    /\ site \in [Inst -> Sites]
    /\ layout \in Layouts
    /\ query = DefaultQuery
    /\ stats = [total_queries |-> 0, total_results |-> 0, instance_stats |-> <<>>]
    /\ pc = [i \in Inst |-> "idle"]
    /\ page = [i \in Inst |-> 0]
    /\ max_pages = [i \in Inst |-> 0]
    /\ results = [i \in Inst |-> <<>>]
    /\ idx = [i \in Inst |-> 0]
    /\ requests = [i \in Inst |-> <<>>]
    /\ delivered = [i \in Inst |-> <<>>]
    /\ failKind = [i \in Inst |-> "none"]
    /\ orch = "idle"
    /\ tasks = [i \in Inst |-> "none"]
    /\ semaphore = [created |-> FALSE, value |-> 0]
    /\ merged = <<>>
    /\ session = NoSession
    /\ sleeps = [i \in Inst |-> <<>>]
    /\ arg = <<>>
    /\ ret = <<>>

\* ----------------------------------------------- search_instance (Pager)
\* Faulty variant: the loop does not test the page cap.
LoopHead_NoCap(i, p, mx) ==
    /\ query' = [query EXCEPT !.pageno = p]
    /\ requests' = [requests EXCEPT ![i] = Append(@, BuildRequest(p, query'))]
    /\ pc' = [pc EXCEPT ![i] = "fetching"]

\* Faulty variant: the generator is suspended between `query.pageno = page`
\* and the serialisation, which then reads the page number another run
\* wrote to the shared Query in between (1, the value every run starts
\* with, if another run is in flight).
LoopHead_Suspends(i, p, mx) ==
    IF p <= mx
    THEN /\ query' = [query EXCEPT !.pageno =
                         IF \E j \in Inst \ {i} : pc[j] \in {"fetching", "sleeping", "yielding"}
                         THEN 1 ELSE p]
         /\ requests' = [requests EXCEPT ![i] = Append(@, BuildRequest(p, query'))]
         /\ pc' = [pc EXCEPT ![i] = "fetching"]
    ELSE /\ pc' = [pc EXCEPT ![i] = "done"]
         /\ UNCHANGED <<query, requests>>

\* Faulty variant: the request is built without query.pageno = page.
LoopHead_StalePageno(i, p, mx) ==
    IF p <= mx
    THEN /\ query' = query
         /\ requests' = [requests EXCEPT ![i] = Append(@, BuildRequest(p, query'))]
         /\ pc' = [pc EXCEPT ![i] = "fetching"]
    ELSE /\ pc' = [pc EXCEPT ![i] = "done"]
         /\ UNCHANGED <<query, requests>>

\* The head of `while page <= max_pages`, entered with page = p: either the
\* request of page p is issued and the generator suspends on it, or the
\* loop and the generator end.
LoopHead(i, p, mx) ==
    IF p <= mx
    THEN /\ query' = [query EXCEPT !.pageno = p]
         /\ requests' = [requests EXCEPT ![i] = Append(@, BuildRequest(p, query'))]
         /\ pc' = [pc EXCEPT ![i] = "fetching"]
    ELSE /\ pc' = [pc EXCEPT ![i] = "done"]
         /\ UNCHANGED <<query, requests>>

\* Faulty variant: the transport session is started before the instance is
\* tested for being active.
SearchInstance_SessionFirst(i, mp) ==
    /\ pc[i] = "idle"
    /\ session' = start_session(session)
    /\ IF ~instances[i].is_active
       THEN /\ pc' = [pc EXCEPT ![i] = "done"]
            /\ UNCHANGED <<query, stats, page, max_pages, requests>>
       ELSE /\ max_pages' = [max_pages EXCEPT ![i] = EffectiveMaxPages(mp)]
            /\ stats' = EnsureEntry(stats, Key(i))
            /\ page' = [page EXCEPT ![i] = 1]
            /\ LoopHead(i, 1, max_pages'[i])
    /\ UNCHANGED <<instances, site, layout, results, idx, delivered, failKind,
                   sleeps>>
    /\ UNCHANGED orchVars
    /\ UNCHANGED funVars

\* First pull on search_instance(instance, query, max_pages): an inactive
\* instance returns at once; otherwise the session is started, the
\* statistics entry is created if missing and page 1 is requested.  mp = 0
\* stands for None (or 0).
SearchInstance(i, mp) ==
    /\ pc[i] = "idle"
    /\ IF ~instances[i].is_active
       THEN /\ pc' = [pc EXCEPT ![i] = "done"]
            /\ UNCHANGED <<query, stats, page, max_pages, requests, session>>
       ELSE /\ session' = start_session(session)
            /\ max_pages' = [max_pages EXCEPT ![i] = EffectiveMaxPages(mp)]
            /\ stats' = EnsureEntry(stats, Key(i))
            /\ page' = [page EXCEPT ![i] = 1]
            /\ LoopHead(i, 1, max_pages'[i])
    /\ UNCHANGED <<instances, site, layout, results, idx, delivered, failKind,
                   sleeps>>
    /\ UNCHANGED orchVars
    /\ UNCHANGED funVars

\* Faulty variant: the failure ends the run without being counted.
Fail_Uncounted(i, kind) ==
    /\ failKind' = [failKind EXCEPT ![i] = kind]
    /\ pc' = [pc EXCEPT ![i] = "failed"]
    /\ UNCHANGED <<stats, results, idx, delivered>>

\* The error paths: `errors += 1; break`, in the body of the loop for a
\* non-200 status and in the except clauses for a timeout or another
\* exception.  A KeyError of the increment in the body is caught by
\* `except Exception`, whose own increment raises it again, out of the
\* generator.
Fail(i, kind) ==
    /\ failKind' = [failKind EXCEPT ![i] = kind]
    /\ IF Key(i) \in DOMAIN stats.instance_stats
       THEN /\ stats' = Bump(stats, Key(i), "errors")
            /\ pc' = [pc EXCEPT ![i] = "failed"]
       ELSE /\ pc' = [pc EXCEPT ![i] = "raised"]
            /\ UNCHANGED stats
    /\ UNCHANGED <<results, idx, delivered>>

\* Faulty variant: a page without results is not counted as a fetched page.
Page200_EmptyUncounted(i, html) ==
    LET parsed == _parse_results(html, page[i]) IN
    /\ IF parsed = <<>>
       THEN /\ pc' = [pc EXCEPT ![i] = "done"]
            /\ UNCHANGED <<stats, results, idx, delivered>>
       ELSE /\ stats' = Bump(stats, Key(i), "queries")
            /\ results' = [results EXCEPT ![i] = parsed]
            /\ idx' = [idx EXCEPT ![i] = 1]
            /\ delivered' = [delivered EXCEPT ![i] = Append(@, parsed[1])]
            /\ pc' = [pc EXCEPT ![i] = "yielding"]
    /\ UNCHANGED failKind

\* Faulty variant: a page without results is handled as a failed page.
Page200_EmptyIsError(i, html) ==
    LET parsed == _parse_results(html, page[i]) IN
    IF parsed = <<>>
    THEN /\ stats' = Bump(Bump(stats, Key(i), "queries"), Key(i), "errors")
         /\ pc' = [pc EXCEPT ![i] = "failed"]
         /\ UNCHANGED <<results, idx, delivered, failKind>>
    ELSE /\ stats' = Bump(stats, Key(i), "queries")
         /\ results' = [results EXCEPT ![i] = parsed]
         /\ idx' = [idx EXCEPT ![i] = 1]
         /\ delivered' = [delivered EXCEPT ![i] = Append(@, parsed[1])]
         /\ pc' = [pc EXCEPT ![i] = "yielding"]
         /\ UNCHANGED failKind

\* A 200 response: the page is counted, parsed, and either the loop ends
\* (no result) or the first result is yielded.
Page200(i, html) ==
    LET parsed == _parse_results(html, page[i]) IN
    /\ stats' = Bump(stats, Key(i), "queries")
    /\ IF parsed = <<>>
       THEN /\ pc' = [pc EXCEPT ![i] = "done"]
            /\ UNCHANGED <<results, idx, delivered>>
       ELSE /\ results' = [results EXCEPT ![i] = parsed]
            /\ idx' = [idx EXCEPT ![i] = 1]
            /\ delivered' = [delivered EXCEPT ![i] = Append(@, parsed[1])]
            /\ pc' = [pc EXCEPT ![i] = "yielding"]
    /\ UNCHANGED failKind

\* Faulty variant: only connection failures are caught: a timeout leaves the
\* generator as an exception.
Receive_TimeoutEscapes(i) ==
    /\ pc[i] = "fetching"
    /\ LET r == Response(site[i], layout, requests[i][Len(requests[i])].pageno) IN
         CASE r.kind = "timeout"    ->
                /\ pc' = [pc EXCEPT ![i] = "raised"]
                /\ failKind' = [failKind EXCEPT ![i] = "timeout"]
                /\ UNCHANGED <<stats, results, idx, delivered>>
           [] r.kind = "connection" -> Fail(i, "connection")
           [] r.kind = "response" /\ r.status # 200 -> Fail(i, "status")
           [] OTHER -> IF Key(i) \in DOMAIN stats.instance_stats
                       THEN Page200(i, r.html)
                       ELSE Fail(i, "exception")
    /\ UNCHANGED <<instances, site, layout, query, page, max_pages, requests,
                   sleeps, session>>
    /\ UNCHANGED orchVars
    /\ UNCHANGED funVars

\* The awaited request of the current page completes.
Receive(i) ==
    /\ pc[i] = "fetching"
    /\ LET r == Response(site[i], layout, requests[i][Len(requests[i])].pageno) IN
         CASE r.kind = "timeout"    -> Fail(i, "timeout")
           [] r.kind = "connection" -> Fail(i, "connection")
           [] r.kind = "response" /\ r.status # 200 -> Fail(i, "status")
           [] OTHER -> IF Key(i) \in DOMAIN stats.instance_stats
                       THEN Page200(i, r.html)
                       ELSE Fail(i, "exception")
    /\ UNCHANGED <<instances, site, layout, query, page, max_pages, requests,
                   sleeps, session>>
    /\ UNCHANGED orchVars
    /\ UNCHANGED funVars

\* Faulty variant: the delay is awaited after every page with results, the
\* last permitted one included.
Resume_AlwaysSleeps(i) ==
    /\ pc[i] = "yielding"
    /\ IF Key(i) \notin DOMAIN stats.instance_stats
       THEN /\ stats' = [stats EXCEPT !.total_results = @ + 1]
            /\ pc' = [pc EXCEPT ![i] = "raised"]
            /\ failKind' = [failKind EXCEPT ![i] = "exception"]
            /\ UNCHANGED <<idx, delivered, page, query, requests, sleeps>>
       ELSE /\ stats' = Bump([stats EXCEPT !.total_results = @ + 1], Key(i), "results")
            /\ UNCHANGED failKind
            /\ IF idx[i] < Len(results[i])
               THEN /\ idx' = [idx EXCEPT ![i] = @ + 1]
                    /\ delivered' = [delivered EXCEPT ![i] =
                                        Append(@, results[i][idx[i] + 1])]
                    /\ UNCHANGED <<pc, page, query, requests, sleeps>>
               ELSE /\ page' = [page EXCEPT ![i] = @ + 1]
                    /\ IF TRUE
                       THEN /\ pc' = [pc EXCEPT ![i] = "sleeping"]
                            /\ sleeps' = [sleeps EXCEPT ![i] =
                                    Append(@, instances[i].rate_limit_delay)]
                            /\ UNCHANGED <<query, requests>>
                       ELSE /\ LoopHead(i, page'[i], max_pages[i])
                            /\ UNCHANGED sleeps
                    /\ UNCHANGED <<idx, delivered>>
    /\ UNCHANGED <<instances, site, layout, max_pages, results, session>>
    /\ UNCHANGED orchVars
    /\ UNCHANGED funVars

\* The consumer asks for the next result: the generator resumes after the
\* yield, counts the result it had handed over, and either yields the next
\* result of the page or moves to the next page (sleeping first if one is
\* still permitted).
Resume(i) ==
    /\ pc[i] = "yielding"
    /\ IF Key(i) \notin DOMAIN stats.instance_stats
       THEN /\ stats' = [stats EXCEPT !.total_results = @ + 1]
            /\ pc' = [pc EXCEPT ![i] = "raised"]
            /\ failKind' = [failKind EXCEPT ![i] = "exception"]
            /\ UNCHANGED <<idx, delivered, page, query, requests, sleeps>>
       ELSE /\ stats' = Bump([stats EXCEPT !.total_results = @ + 1], Key(i), "results")
            /\ UNCHANGED failKind
            /\ IF idx[i] < Len(results[i])
               THEN /\ idx' = [idx EXCEPT ![i] = @ + 1]
                    /\ delivered' = [delivered EXCEPT ![i] =
                                        Append(@, results[i][idx[i] + 1])]
                    /\ UNCHANGED <<pc, page, query, requests, sleeps>>
               ELSE /\ page' = [page EXCEPT ![i] = @ + 1]
                    /\ IF page'[i] <= max_pages[i]
                       THEN /\ pc' = [pc EXCEPT ![i] = "sleeping"]
                            /\ sleeps' = [sleeps EXCEPT ![i] =
                                    Append(@, instances[i].rate_limit_delay)]
                            /\ UNCHANGED <<query, requests>>
                       ELSE /\ LoopHead(i, page'[i], max_pages[i])
                            /\ UNCHANGED sleeps
                    /\ UNCHANGED <<idx, delivered>>
    /\ UNCHANGED <<instances, site, layout, max_pages, results, session>>
    /\ UNCHANGED orchVars
    /\ UNCHANGED funVars

\* asyncio.sleep(instance.rate_limit_delay) returns: next loop iteration.
Wake(i) ==
    /\ pc[i] = "sleeping"
    /\ LoopHead(i, page[i], max_pages[i])
    /\ UNCHANGED <<instances, site, layout, stats, page, max_pages, results, idx,
                   delivered, failKind, sleeps, session>>
    /\ UNCHANGED orchVars
    /\ UNCHANGED funVars

\* Faulty variant: the exception thrown in at the yield is caught like a
\* failed page and counted.
Abandon_Caught(i) ==
    /\ pc[i] = "yielding"
    /\ stats' = Bump(stats, Key(i), "errors")
    /\ pc' = [pc EXCEPT ![i] = "abandoned"]
    /\ UNCHANGED <<instances, site, layout, query, page, max_pages, results, idx,
                   requests, delivered, failKind, sleeps, session>>
    /\ UNCHANGED orchVars
    /\ UNCHANGED funVars

\* The consumer leaves its `async for` (test_scraper.py: break after 20
\* results) while the generator is suspended at `yield result`.  The
\* generator is never resumed; when it is finalised GeneratorExit is thrown
\* in at the yield, which neither `except asyncio.TimeoutError` nor
\* `except Exception` catches, so none of its code runs again.
Abandon(i) ==
    /\ pc[i] = "yielding"
    /\ pc' = [pc EXCEPT ![i] = "abandoned"]
    /\ UNCHANGED <<instances, site, layout, query, stats, page, max_pages, results,
                   idx, requests, delivered, failKind, sleeps, session>>
    /\ UNCHANGED orchVars
    /\ UNCHANGED funVars

\* ------------------------------- search_multiple_instances (Orchestrator)
\* self.config.scraper.concurrent_requests
ConcurrentRequests == 3

Active == {i \in Inst : instances[i].is_active}

\* First pull on search_multiple_instances(instances, query, max_pages); mp
\* is the max_pages argument, which only search_instance would read.
\* Without an active instance it returns.  Otherwise it creates the
\* semaphore and one search_with_semaphore(instance) async generator per
\* active instance (creating an async generator runs none of its body), and
\* hands the list to asyncio.as_completed.  These objects are no awaitables
\* and the value as_completed returns is no asynchronous iterable: the
\* `async for` raises TypeError before any generator is started, and the
\* exception leaves search_multiple_instances.
SearchMultipleInstances(mp) ==
    /\ orch = "idle"
    /\ IF Active = {}
       THEN /\ orch' = "done"
            /\ UNCHANGED <<tasks, semaphore>>
       ELSE /\ semaphore' = [created |-> TRUE, value |-> ConcurrentRequests]
            /\ tasks' = [i \in Inst |-> IF i \in Active THEN "idle" ELSE "none"]
            /\ orch' = "raised"
    /\ UNCHANGED merged
    /\ UNCHANGED <<instances, site, layout, query, stats, session>>
    /\ UNCHANGED pagerVars
    /\ UNCHANGED funVars

\* ----------------------------------- test_instance, get_search_suggestions
\* Faulty variant: an instance that fails the test is switched off in the
\* snapshot the caller passed.
TestInstance_Deactivates(i) ==
    /\ session' = start_session(session)
    /\ instances' = IF Response(site[i], layout, 1).status = 200
                    THEN instances
                    ELSE [instances EXCEPT ![i].is_active = FALSE]
    /\ UNCHANGED <<site, layout, query, stats>>
    /\ UNCHANGED pagerVars
    /\ UNCHANGED orchVars
    /\ UNCHANGED funVars

\* test_instance(instance): starts the session, sends one GET built from a
\* SearchQuery of its own and returns a verdict; of the instance it reads
\* url, timeout and a copy of custom_headers.  Every outcome (200, another
\* status, timeout, exception) ends in a return.
TestInstance(i) ==
    /\ session' = start_session(session)
    /\ UNCHANGED <<instances, site, layout, query, stats>>
    /\ UNCHANGED pagerVars
    /\ UNCHANGED orchVars
    /\ UNCHANGED funVars

\* get_search_suggestions(query, instance): starts the session, sends one
\* GET to /autocompleter and returns a list; of the instance it reads url
\* and name.
GetSearchSuggestions(i) ==
    /\ session' = start_session(session)
    /\ UNCHANGED <<instances, site, layout, query, stats>>
    /\ UNCHANGED pagerVars
    /\ UNCHANGED orchVars
    /\ UNCHANGED funVars

\* ------------------------------------------------------------------ Next
Next ==
    \/ \E i \in Inst, mp \in 0..MaxPages : SearchInstance(i, mp)
    \/ \E i \in Inst : Receive(i)
    \/ \E i \in Inst : Resume(i)
    \/ \E i \in Inst : Wake(i)
    \/ \E mp \in 0..MaxPages : SearchMultipleInstances(mp)

Spec == Init /\ [][Next]_vars

\* The four core operations of the scraper.
NextCore ==
    \/ Next
    \/ \E i \in Inst : TestInstance(i)
    \/ \E i \in Inst : GetSearchSuggestions(i)

SpecCore == Init /\ [][NextCore]_vars

\* -------------------------------------------- _parse_results on its own
\* The pages handed to the parser: every sequence of at most MaxContainers
\* containers.
Bodies == UNION {[1..n -> {"ok", "bad"}] : n \in 0..MaxContainers}

\* A scraper that is not crawling (the state after construction, for one
\* fixed environment).
InitQuiet ==
    /\ instances = [i \in Inst |-> [name |-> IF i = 1 THEN "A" ELSE "B", url |-> "u",
                                     is_active |-> TRUE, rate_limit_delay |-> i]]
    /\ site = [i \in Inst |->
                 [pages |-> 0,
                  ending |-> [kind |-> "response", status |-> 500, html |-> <<>>]]]
    /\ layout = <<"ok">>
    /\ query = DefaultQuery
    /\ stats = [total_queries |-> 0, total_results |-> 0, instance_stats |-> <<>>]
    /\ pc = [i \in Inst |-> "idle"]
    /\ page = [i \in Inst |-> 0]
    /\ max_pages = [i \in Inst |-> 0]
    /\ results = [i \in Inst |-> <<>>]
    /\ idx = [i \in Inst |-> 0]
    /\ requests = [i \in Inst |-> <<>>]
    /\ delivered = [i \in Inst |-> <<>>]
    /\ failKind = [i \in Inst |-> "none"]
    /\ orch = "idle"
    /\ tasks = [i \in Inst |-> "none"]
    /\ semaphore = [created |-> FALSE, value |-> 0]
    /\ merged = <<>>
    /\ session = NoSession
    /\ sleeps = [i \in Inst |-> <<>>]

crawlVars == <<instances, site, layout, query, stats, session>>

InitParse ==
    /\ InitQuiet
    /\ arg \in [html : Bodies, page_number : 1..MaxPages]
    /\ ret = <<>>

\* results = self._parse_results(html, page)
ParsePage ==
    /\ ret = <<>>
    /\ ret' = <<_parse_results(arg.html, arg.page_number)>>
    /\ UNCHANGED arg
    /\ UNCHANGED crawlVars
    /\ UNCHANGED pagerVars
    /\ UNCHANGED orchVars

SpecParse == InitParse /\ [][ParsePage]_vars

\* ------------------------------------------ the classification on its own
\* The non-empty texts of at most n pieces (the parser skips a container
\* with an empty title or URL).
Texts(atoms, n) == UNION {[1..k -> atoms] : k \in 1..n}

InitClassify ==
    /\ InitQuiet
    /\ arg \in [url : Texts(UrlAtoms, MaxUrlAtoms), title : Texts(TitleAtoms, MaxTitleAtoms)]
    /\ ret = <<>>

\* The Result the parser builds for a container with this URL and title.
Classify ==
    /\ ret = <<>>
    /\ ret' = <<ClassifiedResult(arg.url, arg.title)>>
    /\ UNCHANGED arg
    /\ UNCHANGED crawlVars
    /\ UNCHANGED pagerVars
    /\ UNCHANGED orchVars

SpecClassify == InitClassify /\ [][Classify]_vars

\* ------------------------------------------------- SearchQuery on its own
\* The Query objects a caller makes (pageno is left at its default).
Queries ==
    {[DefaultQuery EXCEPT !.safesearch = s, !.time_range = t,
                          !.categories = c, !.engines = e] :
        s \in {0, 1}, t \in {None, "", "day"},
        c \in {<<>>, <<"files">>}, e \in {<<>>, <<"google", "bing">>}}

\* arg is the Query object, ret the calls made on it so far: the method,
\* the Query as it was when called, and the pairs returned.
InitQuery ==
    /\ InitQuiet
    /\ arg \in Queries
    /\ ret = <<>>

\* query.pageno = page (search_instance, at every page)
SetPageno(p) ==
    /\ arg' = [arg EXCEPT !.pageno = p]
    /\ UNCHANGED ret
    /\ UNCHANGED crawlVars
    /\ UNCHANGED pagerVars
    /\ UNCHANGED orchVars

\* params=query.to_params()
CallToParams ==
    /\ Len(ret) < MaxCalls
    /\ ret' = Append(ret, [method |-> "to_params", self |-> arg, pairs |-> to_params(arg)])
    /\ UNCHANGED arg
    /\ UNCHANGED crawlVars
    /\ UNCHANGED pagerVars
    /\ UNCHANGED orchVars

\* form_fields = query.to_form_data()
CallToFormData ==
    /\ Len(ret) < MaxCalls
    /\ ret' = Append(ret, [method |-> "to_form_data", self |-> arg,
                           pairs |-> to_form_data(arg)])
    /\ UNCHANGED arg
    /\ UNCHANGED crawlVars
    /\ UNCHANGED pagerVars
    /\ UNCHANGED orchVars

NextQuery ==
    \/ \E p \in 1..MaxPages : SetPageno(p)
    \/ CallToParams
    \/ CallToFormData

SpecQuery == InitQuery /\ [][NextQuery]_vars

\* ------------------------------------------ avg_response_time on its own
\* Response times and averages are exact fractions num/den in lowest terms
\* (the rounding of the floats of the code is not modelled).
RECURSIVE GCD(_, _)
GCD(a, b) == IF b = 0 THEN a ELSE GCD(b, a % b)

Frac(num, den) ==
    IF num = 0 THEN [num |-> 0, den |-> 1]
    ELSE [num |-> num \div GCD(num, den), den |-> den \div GCD(num, den)]

\* The response times measured (seconds).
Samples == {Frac(1, 1), Frac(2, 1), Frac(3, 1)}

\* Faulty variant: the old average is weighted with the new count.
FoldResponseTime_WeighsAll(entry, response_time) ==
    LET queries_count == entry.queries + 1
        current_avg == entry.avg_response_time
    IN  [queries |-> queries_count,
         avg_response_time |->
            Frac(current_avg.num * queries_count * response_time.den
                    + response_time.num * current_avg.den,
                 current_avg.den * response_time.den * queries_count)]

\* queries += 1; avg_response_time =
\*     (current_avg * (queries_count - 1) + response_time) / queries_count
FoldResponseTime(entry, response_time) ==
    LET queries_count == entry.queries + 1
        current_avg == entry.avg_response_time
    IN  [queries |-> queries_count,
         avg_response_time |->
            Frac(current_avg.num * (queries_count - 1) * response_time.den
                    + response_time.num * current_avg.den,
                 current_avg.den * response_time.den * queries_count)]

\* arg is the sequence of response times of the pages fetched so far, ret
\* the queries and avg_response_time fields of the entry of the instance.
InitAverage ==
    /\ InitQuiet
    /\ arg = <<>>
    /\ ret = [queries |-> 0, avg_response_time |-> Frac(0, 1)]

\* A page answered with status 200 after response_time seconds.
PageTimed(response_time) ==
    /\ Len(arg) < MaxSamples
    /\ arg' = Append(arg, response_time)
    /\ ret' = FoldResponseTime(ret, response_time)
    /\ UNCHANGED crawlVars
    /\ UNCHANGED pagerVars
    /\ UNCHANGED orchVars

NextAverage == \E response_time \in Samples : PageTimed(response_time)

SpecAverage == InitAverage /\ [][NextAverage]_vars

\* --------------------------- runs on one scraper for instances of one key
\* Two active instances, the second with the name and URL of the first or
\* with a name of its own, searched on the same scraper (api/main.py: every
\* request handler uses the one global scraper).
InitShared ==
    /\ instances \in {f \in [Inst -> InstanceConfigs] :
                        /\ f[1].name = "A"
                        /\ \A i \in Inst : f[i].is_active /\ f[i].rate_limit_delay = i}
    /\ site \in [Inst -> Sites]
    /\ layout \in {<<"ok">>, <<"ok", "ok">>}
    /\ query = DefaultQuery
    /\ stats = [total_queries |-> 0, total_results |-> 0, instance_stats |-> <<>>]
    /\ pc = [i \in Inst |-> "idle"]
    /\ page = [i \in Inst |-> 0]
    /\ max_pages = [i \in Inst |-> 0]
    /\ results = [i \in Inst |-> <<>>]
    /\ idx = [i \in Inst |-> 0]
    /\ requests = [i \in Inst |-> <<>>]
    /\ delivered = [i \in Inst |-> <<>>]
    /\ failKind = [i \in Inst |-> "none"]
    /\ orch = "idle"
    /\ tasks = [i \in Inst |-> "none"]
    /\ semaphore = [created |-> FALSE, value |-> 0]
    /\ merged = <<>>
    /\ session = NoSession
    /\ sleeps = [i \in Inst |-> <<>>]
    /\ arg = <<>>
    /\ ret = <<>>

SpecShared == InitShared /\ [][Next]_vars

\* ------------------------------------------------- get_stats snapshots
\* The dict object held in self.stats['instance_stats'].  dict.copy() makes
\* a new top-level dict whose items are the items of the original: the
\* ints are values, the nested dict is this same object.
InstanceStatsObject == "self.stats['instance_stats']"

\* SearxngScraper.get_stats: return self.stats.copy()
get_stats(st) ==
    [total_queries |-> st.total_queries,
     total_results |-> st.total_results,
     instance_stats |-> InstanceStatsObject]

\* What a holder of snapshot snap reads from it while the scraper's
\* statistics are st: its own run-level items, and the items of the
\* scraper's nested dict.
Read(snap, st) ==
    [total_queries |-> snap.total_queries,
     total_results |-> snap.total_results,
     instance_stats |-> st.instance_stats]

\* A consumer calls get_stats and keeps the snapshot.
GetStats ==
    /\ ret = <<>>
    /\ ret' = <<get_stats(stats)>>
    /\ UNCHANGED <<instances, site, layout, query, stats, session, arg>>
    /\ UNCHANGED pagerVars
    /\ UNCHANGED orchVars

\* The consumer assigns to a run-level item of its snapshot:
\* snapshot['total_results'] = 0.
ConsumerSetsTotal ==
    /\ ret # <<>>
    /\ ret[1].total_results > 0
    /\ ret' = <<[ret[1] EXCEPT !.total_results = 0]>>
    /\ UNCHANGED <<instances, site, layout, query, stats, session, arg>>
    /\ UNCHANGED pagerVars
    /\ UNCHANGED orchVars

\* The consumer assigns to a per-instance item of its snapshot:
\* snapshot['instance_stats'][key]['results'] = 0.  The nested dict is the
\* scraper's object, so the assignment lands there.
ConsumerSetsEntry(key) ==
    /\ ret # <<>>
    /\ key \in DOMAIN Read(ret[1], stats).instance_stats
    /\ Read(ret[1], stats).instance_stats[key].results > 0
    /\ stats' = [stats EXCEPT !.instance_stats[key].results = 0]
    /\ UNCHANGED <<instances, site, layout, query, session, arg, ret>>
    /\ UNCHANGED pagerVars
    /\ UNCHANGED orchVars

\* One active instance crawled while a consumer holds a snapshot.
InitSnapshot ==
    /\ instances = [i \in Inst |-> [name |-> IF i = 1 THEN "A" ELSE "B", url |-> "u",
                                     is_active |-> i = 1, rate_limit_delay |-> i]]
    /\ site \in {f \in [Inst -> Sites] :
                   f[2] = [pages |-> 0,
                           ending |-> [kind |-> "response", status |-> 500,
                                       html |-> <<>>]]}
    /\ layout \in Layouts
    /\ query = DefaultQuery
    /\ stats = [total_queries |-> 0, total_results |-> 0, instance_stats |-> <<>>]
    /\ pc = [i \in Inst |-> "idle"]
    /\ page = [i \in Inst |-> 0]
    /\ max_pages = [i \in Inst |-> 0]
    /\ results = [i \in Inst |-> <<>>]
    /\ idx = [i \in Inst |-> 0]
    /\ requests = [i \in Inst |-> <<>>]
    /\ delivered = [i \in Inst |-> <<>>]
    /\ failKind = [i \in Inst |-> "none"]
    /\ orch = "idle"
    /\ tasks = [i \in Inst |-> "none"]
    /\ semaphore = [created |-> FALSE, value |-> 0]
    /\ merged = <<>>
    /\ session = NoSession
    /\ sleeps = [i \in Inst |-> <<>>]
    /\ arg = <<>>
    /\ ret = <<>>

NextSnapshot ==
    \/ Next
    \/ GetStats
    \/ ConsumerSetsTotal
    \/ \E i \in Inst : ConsumerSetsEntry(Key(i))

SpecSnapshot == InitSnapshot /\ [][NextSnapshot]_vars

\* ------------------------------------------- the life of the session
\* A caller awaits start_session (also __aenter__).
StartSession ==
    /\ session' = start_session(session)
    /\ UNCHANGED <<instances, site, layout, query, stats>>
    /\ UNCHANGED pagerVars
    /\ UNCHANGED orchVars
    /\ UNCHANGED funVars

\* A caller awaits close_session (also __aexit__) between two crawls: no
\* search_instance run is suspended on a request, a delay or a yield.
CloseSession ==
    /\ session.created < MaxSessions
    /\ \A i \in Inst : pc[i] \notin {"fetching", "sleeping", "yielding"}
    /\ session' = close_session(session)
    /\ UNCHANGED <<instances, site, layout, query, stats>>
    /\ UNCHANGED pagerVars
    /\ UNCHANGED orchVars
    /\ UNCHANGED funVars

\* Instances of one fixed site: each has one page of results.
InitSession ==
    /\ instances \in {f \in [Inst -> InstanceConfigs] :
                        \A i \in Inst :
                            /\ f[i].name = IF i = 1 THEN "A" ELSE "B"
                            /\ f[i].rate_limit_delay = i}
    /\ site = [i \in Inst |->
                 [pages |-> 1,
                  ending |-> [kind |-> "response", status |-> 200, html |-> <<>>]]]
    /\ layout = <<"ok">>
    /\ query = DefaultQuery
    /\ stats = [total_queries |-> 0, total_results |-> 0, instance_stats |-> <<>>]
    /\ pc = [i \in Inst |-> "idle"]
    /\ page = [i \in Inst |-> 0]
    /\ max_pages = [i \in Inst |-> 0]
    /\ results = [i \in Inst |-> <<>>]
    /\ idx = [i \in Inst |-> 0]
    /\ requests = [i \in Inst |-> <<>>]
    /\ delivered = [i \in Inst |-> <<>>]
    /\ failKind = [i \in Inst |-> "none"]
    /\ orch = "idle"
    /\ tasks = [i \in Inst |-> "none"]
    /\ semaphore = [created |-> FALSE, value |-> 0]
    /\ merged = <<>>
    /\ session = NoSession
    /\ sleeps = [i \in Inst |-> <<>>]
    /\ arg = <<>>
    /\ ret = <<>>

NextSession ==
    \/ NextCore
    \/ StartSession
    \/ CloseSession

SpecSession == InitSession /\ [][NextSession]_vars

\* ------------------------------------------------ the crawl, scheduled
\* The consumer keeps pulling (Resume), every awaited request returns or
\* times out (Receive) and every awaited delay ends (Wake): the event loop
\* runs a coroutine whose awaited future is done.
SpecLive ==
    /\ Init
    /\ [][Next]_vars
    /\ \A i \in Inst : WF_vars(Receive(i)) /\ WF_vars(Resume(i)) /\ WF_vars(Wake(i))

\* ------------------------------------------------ reset_stats in a crawl
\* SearxngScraper.reset_stats: self.stats is bound to a new dict with zero
\* totals and no instance entry.
reset_stats == [total_queries |-> 0, total_results |-> 0, instance_stats |-> <<>>]

\* A caller calls reset_stats; the method has no suspension point, so it
\* runs between two steps of the runs in flight.
ResetStats ==
    /\ stats' = reset_stats
    /\ UNCHANGED <<instances, site, layout, query, session>>
    /\ UNCHANGED pagerVars
    /\ UNCHANGED orchVars
    /\ UNCHANGED funVars

\* Two active instances with entries of their own.
InitReset ==
    /\ instances = [i \in Inst |-> [name |-> IF i = 1 THEN "A" ELSE "B", url |-> "u",
                                     is_active |-> TRUE, rate_limit_delay |-> i]]
    /\ site \in [Inst -> Sites]
    /\ layout = <<"ok">>
    /\ query = DefaultQuery
    /\ stats = [total_queries |-> 0, total_results |-> 0, instance_stats |-> <<>>]
    /\ pc = [i \in Inst |-> "idle"]
    /\ page = [i \in Inst |-> 0]
    /\ max_pages = [i \in Inst |-> 0]
    /\ results = [i \in Inst |-> <<>>]
    /\ idx = [i \in Inst |-> 0]
    /\ requests = [i \in Inst |-> <<>>]
    /\ delivered = [i \in Inst |-> <<>>]
    /\ failKind = [i \in Inst |-> "none"]
    /\ orch = "idle"
    /\ tasks = [i \in Inst |-> "none"]
    /\ semaphore = [created |-> FALSE, value |-> 0]
    /\ merged = <<>>
    /\ session = NoSession
    /\ sleeps = [i \in Inst |-> <<>>]
    /\ arg = <<>>
    /\ ret = <<>>

NextReset ==
    \/ Next
    \/ ResetStats

SpecReset == InitReset /\ [][NextReset]_vars

\* ------------------------------------------- the page cap of a call
\* The max_pages arguments of a call: a negative number, 0 (which also
\* stands for None, the omitted argument) and the positive numbers.
CapArguments == (-1)..MaxPages

\* arg is the max_pages argument every call of this crawl is made with.
InitCap ==
    /\ instances \in {f \in [Inst -> InstanceConfigs] :
                        \A i \in Inst :
                            /\ f[i].name = IF i = 1 THEN "A" ELSE "B"
                            /\ f[i].rate_limit_delay = i}
    /\ site \in [Inst -> Sites]
    /\ layout = <<"ok">>
    /\ query = DefaultQuery
    /\ stats = [total_queries |-> 0, total_results |-> 0, instance_stats |-> <<>>]
    /\ pc = [i \in Inst |-> "idle"]
    /\ page = [i \in Inst |-> 0]
    /\ max_pages = [i \in Inst |-> 0]
    /\ results = [i \in Inst |-> <<>>]
    /\ idx = [i \in Inst |-> 0]
    /\ requests = [i \in Inst |-> <<>>]
    /\ delivered = [i \in Inst |-> <<>>]
    /\ failKind = [i \in Inst |-> "none"]
    /\ orch = "idle"
    /\ tasks = [i \in Inst |-> "none"]
    /\ semaphore = [created |-> FALSE, value |-> 0]
    /\ merged = <<>>
    /\ session = NoSession
    /\ sleeps = [i \in Inst |-> <<>>]
    /\ arg \in CapArguments
    /\ ret = <<>>

NextCap ==
    \/ \E i \in Inst : SearchInstance(i, arg)
    \/ \E i \in Inst : Receive(i)
    \/ \E i \in Inst : Resume(i)
    \/ \E i \in Inst : Wake(i)

SpecCap == InitCap /\ [][NextCap]_vars

\* The crawl with consumers that may stop pulling.
NextAbandon ==
    \/ Next
    \/ \E i \in Inst : Abandon(i)

SpecAbandon == Init /\ [][NextAbandon]_vars


\* ================================================================ claims
\* The results the parser gives for pages 1..n of a site with markup body.
RECURSIVE ResultsOfPages(_, _)
ResultsOfPages(body, n) ==
    IF n <= 0 THEN <<>>
    ELSE ResultsOfPages(body, n - 1) \o _parse_results(body, n)

\* The errors counter of the statistics entry of instance i.
ErrorsOf(i) ==
    IF Key(i) \in DOMAIN stats.instance_stats
    THEN stats.instance_stats[Key(i)].errors
    ELSE 0

\* The answer to the last request of run i.
LastAnswer(i) ==
    Response(site[i], layout, requests[i][Len(requests[i])].pageno)

\* Run i has received the answer to its last request.
Answered(i) == requests[i] # <<>> /\ pc[i] # "fetching"

\* Once run i has ended, nothing of it changes any more.
Frozen(i) ==
    /\ pc'[i] = pc[i]
    /\ requests'[i] = requests[i]
    /\ delivered'[i] = delivered[i]
    /\ ErrorsOf(i)' = ErrorsOf(i)

\* C1: in every run of search_instance on an active instance the first
\* request is a GET with pageno=1 and the n-th request (n>1) is a POST
\* with pageno=n: pages are requested in the order 1,2,3,..., none skipped
\* and none twice.
C1_RequestOrder ==
    \A i \in Inst : \A n \in 1..Len(requests[i]) :
        /\ requests[i][n].pageno = n
        /\ requests[i][n].method = IF n = 1 THEN "GET" ELSE "POST"

C1_Witness ==
    \E i \in Inst : /\ instances[i].is_active
                     /\ Len(requests[i]) >= 2
                     /\ requests[i][2].method = "POST"

\* Run i received a non-200 status as the answer to its last request.
GotNon200(i) ==
    /\ Answered(i)
    /\ LastAnswer(i).kind = "response"
    /\ LastAnswer(i).status # 200

\* C2: a Pager that receives a non-200 status on page k has yielded exactly
\* the results of pages 1..k-1 and nothing of page k, its error counter has
\* grown by exactly 1, it issues no further request, and no exception
\* leaves search_instance.
C2_Non200Stops ==
    /\ [](\A i \in Inst : GotNon200(i) =>
            /\ pc[i] = "failed"
            /\ delivered[i] = ResultsOfPages(layout, Len(requests[i]) - 1)
            /\ \A k \in 1..Len(delivered[i]) :
                   delivered[i][k].page_number < Len(requests[i]))
    /\ [][\A i \in Inst :
            /\ (pc[i] = "fetching" /\ GotNon200(i)') => ErrorsOf(i)' = ErrorsOf(i) + 1
            /\ GotNon200(i) => Frozen(i)]_vars

C2_Witness ==
    \E i \in Inst : /\ GotNon200(i)
                     /\ Len(requests[i]) = 2
                     /\ delivered[i] # <<>>
                     /\ ErrorsOf(i) = 1

\* Run i got a timeout or a connection failure on its last request.
GotTransportError(i) ==
    /\ Answered(i)
    /\ LastAnswer(i).kind \in {"timeout", "connection"}

\* The statistics entry of instance i.
EntryOf(i) == stats.instance_stats[Key(i)]

\* C3 (as stated): a timeout or connection failure ends the pagination
\* like a non-200 status (error counter +1, no further request, nothing
\* raised), and the statistics classify a timeout as a timeout error: the
\* entry of a run that ended on a timeout differs from the entry of a run
\* that ended on another error.
C3_TimeoutClassified ==
    /\ \A i \in Inst : GotTransportError(i) =>
            /\ pc[i] = "failed"
            /\ ErrorsOf(i) = 1
    /\ \A i, j \in Inst :
            (/\ GotTransportError(i) /\ LastAnswer(i).kind = "timeout"
             /\ Answered(j) /\ pc[j] = "failed" /\ LastAnswer(j).kind # "timeout")
            => EntryOf(i) # EntryOf(j)

\* C3 (amended): a timeout or connection failure ends the pagination like
\* a non-200 status: the run has yielded the results of the earlier pages,
\* its error counter grows by exactly 1 and nothing else of the statistics
\* changes (a timeout is counted in the same errors counter as any other
\* failure), no further request is issued and nothing is raised.
C3_TransportErrorStops ==
    /\ [](\A i \in Inst : GotTransportError(i) =>
            /\ pc[i] = "failed"
            /\ delivered[i] = ResultsOfPages(layout, Len(requests[i]) - 1))
    /\ [][\A i \in Inst :
            /\ (pc[i] = "fetching" /\ GotTransportError(i)')
                    => stats' = Bump(stats, Key(i), "errors")
            /\ GotTransportError(i) => Frozen(i)]_vars

C3_Witness ==
    \E i, j \in Inst :
        /\ GotTransportError(i) /\ LastAnswer(i).kind = "timeout"
        /\ GotTransportError(j) /\ LastAnswer(j).kind = "connection"
        /\ Len(requests[i]) = 2
        /\ delivered[i] # <<>>
        /\ ErrorsOf(i) = 1

\* Run i got a 200 page without any parsed result on its last request.
GotEmptyPage(i) ==
    /\ Answered(i)
    /\ LastAnswer(i).kind = "response"
    /\ LastAnswer(i).status = 200
    /\ _parse_results(LastAnswer(i).html, Len(requests[i])) = <<>>

\* C4: if pages 1..k return 200 with results and page k+1 <= max_pages
\* returns 200 without results, the Pager yields exactly the results of
\* pages 1..k in order, stops after page k+1 without another request,
\* leaves its error counter unchanged, and the number of results yielded is
\* (pages with results) x (results per page).
C4_EmptyPageEnds ==
    /\ [](\A i \in Inst : GotEmptyPage(i) =>
            /\ pc[i] = "done"
            /\ failKind[i] = "none"
            /\ delivered[i] = ResultsOfPages(layout, Len(requests[i]) - 1)
            /\ Len(delivered[i]) =
                   (Len(requests[i]) - 1) * Len(_parse_results(layout, 1)))
    /\ [][\A i \in Inst :
            /\ (pc[i] = "fetching" /\ GotEmptyPage(i)') => ErrorsOf(i)' = ErrorsOf(i)
            /\ GotEmptyPage(i) => Frozen(i)]_vars

C4_Witness ==
    \E i \in Inst : /\ GotEmptyPage(i)
                     /\ Len(requests[i]) = 2
                     /\ Len(delivered[i]) = 2
                     /\ ErrorsOf(i) = 0

\* The steps run i can still take are bounded by RunMeasure(i): pages left
\* to request, and within a page the request, the results left to yield and
\* the sleep.
PageWeight == Len(layout) + 3

RunMeasure(i) ==
    CASE pc[i] = "idle"     -> (MaxPages + 1) * PageWeight
      [] pc[i] = "sleeping" -> (max_pages[i] - page[i] + 1) * PageWeight + Len(layout) + 2
      [] pc[i] = "fetching" -> (max_pages[i] - page[i] + 1) * PageWeight + Len(layout) + 1
      [] pc[i] = "yielding" -> (max_pages[i] - page[i] + 1) * PageWeight
                                    + Len(layout) + 1 - idx[i]
      [] OTHER              -> 0

RunVars(i) == <<pc[i], page[i], idx[i], requests[i], delivered[i]>>

\* C5: whatever the server answers, search_instance ends (Done or Failed)
\* after at most max_pages requests, every result it yields has a
\* page_number in 1..max_pages, and the sequence is finite: a run that has
\* not ended can always take a step once its request returns, its sleep
\* ends or its consumer pulls, every step of a run strictly lowers the
\* non-negative RunMeasure, and a run ends only as Done or Failed.
C5_Terminates ==
    /\ [](\A i \in Inst :
            /\ RunMeasure(i) >= 0
            /\ pc[i] # "raised"
            /\ pc[i] \in {"fetching", "yielding", "sleeping"}
                    => ENABLED (Receive(i) \/ Resume(i) \/ Wake(i))
            /\ (pc[i] # "idle" /\ instances[i].is_active) =>
                    /\ Len(requests[i]) <= max_pages[i]
                    /\ \A k \in 1..Len(delivered[i]) :
                           delivered[i][k].page_number \in 1..max_pages[i])
    /\ [][\A i \in Inst :
            RunVars(i)' # RunVars(i) => RunMeasure(i)' < RunMeasure(i)]_vars

C5_Witness ==
    \E i \in Inst : /\ pc[i] = "done"
                     /\ Len(requests[i]) = max_pages[i]
                     /\ max_pages[i] >= 2
                     /\ delivered[i] # <<>>
                     /\ delivered[i][Len(delivered[i])].page_number = max_pages[i]

\* seq goes page by page, and within a page by increasing position.
PageOrdered(seq) ==
    \A a, b \in 1..Len(seq) : a < b =>
        \/ seq[a].page_number < seq[b].page_number
        \/ /\ seq[a].page_number = seq[b].page_number
           /\ seq[a].position < seq[b].position

\* The results of instance i in the merged sequence, in delivery order.
MergedOf(i) ==
    LET FromI(e) == e.inst = i
        own == SelectSeq(merged, FromI)
    IN  [k \in 1..Len(own) |-> own[k].result]

\* C9: restricted to one instance, the sequence delivered by
\* search_instance, and by the merged sequence of the orchestrator, has
\* non-decreasing page_number, delivers page N wholly before page N+1, and
\* delivers the results of a page in parser (document) order.
C9_PageOrder ==
    \A i \in Inst : /\ PageOrdered(delivered[i])
                     /\ PageOrdered(MergedOf(i))

C9_Witness ==
    \E i \in Inst : /\ Len(delivered[i]) = 4
                     /\ delivered[i][2].page_number = 1
                     /\ delivered[i][3].page_number = 2

\* search_multiple_instances has ended: it returned or raised.
OrchEnded == orch \in {"done", "raised"}

\* What the Pager of instance i produces under the page cap: the results of
\* the pages its site holds, up to the cap.
PagerOutput(i, cap) ==
    ResultsOfPages(layout, IF site[i].pages < cap THEN site[i].pages ELSE cap)

\* The site of instance i fails (non-200, timeout, connection failure) on a
\* page the cap lets the Pager request.
SiteFails(i, cap) ==
    /\ site[i].pages < cap
    /\ ~(site[i].ending.kind = "response" /\ site[i].ending.status = 200)

SameResults(s, t) ==
    /\ Len(s) = Len(t)
    /\ {s[k] : k \in 1..Len(s)} = {t[k] : k \in 1..Len(t)}

\* The effective page caps a caller of the orchestrator can choose.
Caps == 1..MaxPages

\* C6: the sequence search_multiple_instances produces is the multiset
\* union of the sequences the Pagers of the active instances produce
\* (nothing lost, duplicated or deduplicated), and at completion
\* total_results has grown by the length of the merged sequence.
C6_MergedIsUnion ==
    OrchEnded => \E cap \in Caps :
        /\ \A i \in Inst :
              SameResults(MergedOf(i), IF i \in Active THEN PagerOutput(i, cap) ELSE <<>>)
        /\ (\A i \in Inst : pc[i] = "idle") => stats.total_results = Len(merged)

\* C7: in one orchestrator run, an error in the Pager of one instance
\* changes no result delivered from another instance, increments no other
\* instance's error counter, and does not abort the merged sequence.
C7_FaultIsolation ==
    OrchEnded => \E cap \in Caps : \A i \in Active : \A j \in Active \ {i} :
        SiteFails(i, cap) =>
            /\ orch # "raised"
            /\ SameResults(MergedOf(j), PagerOutput(j, cap))
            /\ (pc[j] = "idle" /\ ~SiteFails(j, cap)) => ErrorsOf(j) = 0

\* C8: the merged sequence of search_multiple_instances ends only after
\* the Pager of every active instance has reached Done or Failed, never
\* while one is still Idle or FetchingPage.
C8_EndsAfterAllPagers ==
    OrchEnded => \A i \in Active : tasks[i] \in {"done", "failed"}

\* --------------------------------------------------------------------- C11
\* The statistics entry of the run of instance i, if it has one.
EntryOrNone(st, i) ==
    IF Key(i) \in DOMAIN st.instance_stats THEN st.instance_stats[Key(i)]
    ELSE NewInstanceStats

\* C11: once the consumer has stopped pulling from a Pager, the run is
\* abandoned for good: the step that abandons it changes no statistic, and
\* afterwards the run issues no request, hands over no result, awaits no
\* delay and none of the counters of its instance changes.  (The merged
\* sequence of search_multiple_instances never has a Pager in flight: its
\* generators are never started.)
C11_AbandonedRunStops ==
    /\ [](\A i \in Inst : tasks[i] \in {"none", "idle"})
    /\ [][\A i \in Inst :
            /\ (pc[i] # "abandoned" /\ pc'[i] = "abandoned") =>
                    /\ stats' = stats
                    /\ requests' = requests
                    /\ delivered' = delivered
            /\ pc[i] = "abandoned" =>
                    /\ pc'[i] = "abandoned"
                    /\ requests'[i] = requests[i]
                    /\ delivered'[i] = delivered[i]
                    /\ sleeps'[i] = sleeps[i]
                    /\ EntryOrNone(stats', i) = EntryOrNone(stats, i)]_vars

\* A run abandoned after its first result although the site holds, and the
\* cap permits, a further page, while the run of the other instance has gone
\* on to its second request.
C11_Witness ==
    \E i \in Inst : \E j \in Inst \ {i} :
        /\ pc[i] = "abandoned"
        /\ Len(delivered[i]) = 1
        /\ page[i] < max_pages[i]
        /\ page[i] < site[i].pages
        /\ Len(requests[j]) = 2

\* --------------------------------------------------------------------- C12
\* C12: an invocation of search_multiple_instances over at least one active
\* instance that its consumer pulls until it ends has incremented
\* total_queries by exactly 1 (it started from 0), and before it has ended
\* total_queries is unchanged.
C12_CountsOnce ==
    /\ orch = "idle" => stats.total_queries = 0
    /\ (OrchEnded /\ Active # {}) => stats.total_queries = 1

\* --------------------------------------------------------------------- C13
\* C13: search_instance called with an inactive instance ends at its first
\* pull with nothing yielded; the call issues no request, starts no
\* transport session and leaves the statistics (entries and counters) and
\* the query as they were, and no entry for the instance ever exists.
C13_InactiveDoesNothing ==
    /\ [](\A i \in Inst : ~instances[i].is_active =>
            /\ pc[i] \in {"idle", "done"}
            /\ requests[i] = <<>>
            /\ delivered[i] = <<>>
            /\ sleeps[i] = <<>>
            /\ Key(i) \notin DOMAIN stats.instance_stats)
    /\ [][\A i \in Inst :
            (~instances[i].is_active /\ pc[i] = "idle" /\ pc'[i] # "idle") =>
                /\ pc'[i] = "done"
                /\ session' = session
                /\ stats' = stats
                /\ requests' = requests
                /\ query' = query]_vars

\* The call on an inactive instance has returned and the scraper still has
\* no transport session.
C13_Witness ==
    \E i \in Inst :
        /\ ~instances[i].is_active
        /\ pc[i] = "done"
        /\ session = NoSession

\* --------------------------------------------------------------------- C14
\* C14: a run awaits exactly one delay between two consecutive page
\* requests, of the length configured for its instance; the delay starts
\* when every result of the earlier page has been handed over and a further
\* page is permitted, and a request after the first is issued only by a run
\* coming out of its delay.  A run that has ended (last permitted page, page
\* without results, failed page) has awaited one delay less than it issued
\* requests: none after its last page.
C14_OneDelayBetweenPages ==
    /\ [](\A i \in Inst :
            /\ Len(sleeps[i]) =
                  IF pc[i] = "sleeping" THEN Len(requests[i])
                  ELSE IF requests[i] = <<>> THEN 0 ELSE Len(requests[i]) - 1
            /\ \A k \in 1..Len(sleeps[i]) :
                  sleeps[i][k] = instances[i].rate_limit_delay
            /\ pc[i] = "sleeping" =>
                  /\ Len(requests[i]) < max_pages[i]
                  /\ LastAnswer(i).kind = "response"
                  /\ LastAnswer(i).status = 200
                  /\ _parse_results(LastAnswer(i).html, 1) # <<>>
                  /\ delivered[i] = ResultsOfPages(layout, Len(requests[i])))
    /\ [][\A i \in Inst :
            (requests'[i] # requests[i] /\ requests[i] # <<>>) =>
                /\ pc[i] = "sleeping"
                /\ sleeps'[i] = sleeps[i]]_vars

\* A run that requested two pages with one delay between them and ended at
\* the page cap after a page with results: no delay followed the last page.
C14_Witness ==
    \E i \in Inst :
        /\ pc[i] = "done"
        /\ Len(requests[i]) = 2
        /\ sleeps[i] = <<instances[i].rate_limit_delay>>
        /\ page[i] > max_pages[i]
        /\ Len(delivered[i]) > Len(layout)

\* --------------------------------------------------------------------- C15
\* No run is between its first pull and its end.
NoRunInFlight == \A i \in Inst : pc[i] \in {"idle", "done", "failed", "raised"}

\* C15 (as claimed, for a Query reused by successive search_instance
\* calls): the page number of the Query starts at 1 and a step taken while
\* no other run is in flight leaves it or increases it by exactly 1.
C15_PagenoOnlyStepsUp ==
    /\ [](NoRunInFlight /\ (\A i \in Inst : requests[i] = <<>>) => query.pageno = 1)
    /\ [][NoRunInFlight =>
            query'.pageno \in {query.pageno, query.pageno + 1}]_vars

\* C15 (amended): the page number of the Query changes only when a run
\* issues a request, and every request sets it to the page counter of the
\* run that issues it: 1 at the run's first request and exactly 1 more than
\* at the run's previous request afterwards, that previous page having been
\* fetched with status 200 and with results.  (So it steps 1, 2, 3, ...
\* within a run and goes back to 1 when another call uses the Query.)
C15_PagenoFollowsRun ==
    /\ [](query.pageno \in 1..MaxPages)
    /\ [][\A i \in Inst :
            /\ query'.pageno # query.pageno =>
                    \E j \in Inst : requests'[j] # requests[j]
            /\ requests'[i] # requests[i] =>
                    /\ Len(requests'[i]) = Len(requests[i]) + 1
                    /\ query'.pageno = Len(requests'[i])
                    /\ requests'[i][Len(requests'[i])].pageno = query'.pageno
                    /\ requests[i] # <<>> =>
                          /\ requests[i][Len(requests[i])].pageno = query'.pageno - 1
                          /\ LastAnswer(i).status = 200
                          /\ _parse_results(LastAnswer(i).html, 1) # <<>>]_vars

\* A run got to its second request (page number 2), and the call for the
\* other instance, made with the same Query, has set the page number back
\* to 1 with its first request.
C15_Witness ==
    \E i \in Inst : \E j \in Inst \ {i} :
        /\ Len(requests[i]) = 2
        /\ pc[i] \in {"done", "failed"}
        /\ Len(requests[j]) = 1
        /\ query.pageno = 1

\* --------------------------------------------------------------------- C16
\* C16: no step of search_instance, search_multiple_instances,
\* test_instance or get_search_suggestions changes a field of an instance
\* snapshot or the list of instances the caller passed.
C16_InstancesUntouched == [][instances' = instances]_vars

\* search_instance has run to its end for an inactive and for an active
\* instance, the latter with results, the orchestrator has ended and the
\* session has been started.
C16_Witness ==
    \E i \in Inst : \E j \in Inst \ {i} :
        /\ ~instances[i].is_active
        /\ pc[i] = "done"
        /\ instances[j].is_active
        /\ pc[j] = "done"
        /\ delivered[j] # <<>>
        /\ OrchEnded
        /\ session.open

\* --------------------------------------------------------------------- C17
\* The number of containers of a page that carry a title and a URL.
RECURSIVE OkCount(_)
OkCount(html) ==
    IF html = <<>> THEN 0
    ELSE (IF html[Len(html)] = "ok" THEN 1 ELSE 0) + OkCount(SubSeq(html, 1, Len(html) - 1))

\* C17: the parser returns one Result per container with title and URL,
\* and the positions of the Results of a page are exactly 1, 2, ...,
\* len(results) in order: a skipped container uses up no position.
C17_PositionsDense ==
    ret # <<>> =>
        /\ Len(ret[1]) = OkCount(arg.html)
        /\ \A k \in 1..Len(ret[1]) : ret[1][k].position = k

\* --------------------------------------------------------------------- C18
\* C18: in the Results of one page, in the order they are returned (which
\* is the order they are yielded in), positions increase strictly, so no
\* two Results of the page share a position.
C18_PositionsIncrease ==
    ret # <<>> =>
        /\ \A k \in 1..(Len(ret[1]) - 1) : ret[1][k].position < ret[1][k + 1].position
        /\ \A k, h \in 1..Len(ret[1]) :
                ret[1][k].position = ret[1][h].position => k = h
        /\ \A k \in 1..Len(ret[1]) : ret[1][k].page_number = arg.page_number

\* A page with a skipped container between Results has been parsed.
C18_Witness ==
    /\ ret # <<>>
    /\ Len(ret[1]) >= 3
    /\ OkCount(arg.html) < Len(arg.html)

\* --------------------------------------------------------------------- C19
\* C19: a container without title or URL does not stop the parsing of the
\* containers after it (each of them with title and URL gives a Result),
\* the answer of a 200 page never raises the error counter whatever its
\* containers are, and a page with at least one well-formed container is
\* yielded and does not end the pagination.
C19_MalformedIsSkipped ==
    /\ [](\A i \in Inst :
            /\ Len(results[i]) \in {0, OkCount(layout)}
            /\ pc[i] = "sleeping" =>
                    Len(delivered[i]) = Len(requests[i]) * OkCount(layout))
    /\ [][\A i \in Inst :
            (/\ pc[i] = "fetching"
             /\ pc'[i] # "fetching"
             /\ LastAnswer(i).kind = "response"
             /\ LastAnswer(i).status = 200
             /\ Key(i) \in DOMAIN stats.instance_stats) =>
                /\ ErrorsOf(i)' = ErrorsOf(i)
                /\ OkCount(LastAnswer(i).html) >= 1 =>
                        /\ pc'[i] = "yielding"
                        /\ Len(results'[i]) = OkCount(LastAnswer(i).html)]_vars

\* Every page starts with a container without title link; the run went on
\* past it to the Result after it, and past page 1 to page 2, with no error
\* counted.
C19_Witness ==
    \E i \in Inst :
        /\ layout = <<"bad", "ok">>
        /\ pc[i] = "yielding"
        /\ Len(requests[i]) = 2
        /\ Len(delivered[i]) = 2
        /\ ErrorsOf(i) = 0

\* --------------------------------------------------------------------- C20
\* C20 (as claimed): a Result whose lower-cased URL contains '.ext' for
\* an extension of the parser's table is a file of the kind the table gives
\* the extension (the first in table order if there are several); a Result
\* whose URL contains no extension of either table, and whose title contains
\* no file word (and no extension), is no file and has no kind.
C20_ExtensionDecides ==
    ret # <<>> =>
        /\ Hits(file_extensions, lower(arg.url)) # {} =>
                /\ ret[1].is_file
                /\ ret[1].file_type =
                      file_extensions[First(Hits(file_extensions, lower(arg.url)))][2]
        /\ (/\ Hits(file_extensions, lower(arg.url)) = {}
            /\ Hits(SearchResult_file_extensions, lower(arg.url)) = {}
            /\ ~\E word \in TitleWords : str_in(word, lower(arg.title))
            /\ Hits(SearchResult_file_extensions, lower(arg.title)) = {}) =>
                /\ ~ret[1].is_file
                /\ ret[1].file_type = None

\* C20 (amended): a Result whose lower-cased URL contains '.ext' for
\* extensions of the parser's table is a file of the kind of the first of
\* them in table order.  A Result is no file, and then has no kind, exactly
\* when its lower-cased URL contains no extension of the parser's table or
\* of the Result's own table and no Google host, and its lower-cased title
\* contains no file word and no extension of the Result's own table.
C20_FirstExtensionDecides ==
    ret # <<>> =>
        /\ \A k \in 1..Len(file_extensions) :
                (/\ str_in(file_extensions[k][1], lower(arg.url))
                 /\ \A h \in 1..(k - 1) : ~str_in(file_extensions[h][1], lower(arg.url))) =>
                    /\ ret[1].is_file
                    /\ ret[1].file_type = file_extensions[k][2]
        /\ ~ret[1].is_file <=>
                /\ Hits(file_extensions, lower(arg.url)) = {}
                /\ Hits(SearchResult_file_extensions, lower(arg.url)) = {}
                /\ ~\E pat \in google_patterns : str_in(pat, lower(arg.url))
                /\ ~\E word \in TitleWords : str_in(word, lower(arg.title))
                /\ Hits(SearchResult_file_extensions, lower(arg.title)) = {}
        /\ ~ret[1].is_file <=> ret[1].file_type = None

\* The Result of a URL with an upper-case .PDF after a .zip: a file of kind
\* pdf, the earlier extension of the table.
C20_Witness ==
    /\ ret # <<>>
    /\ arg.url = <<".zip", ".PDF">>
    /\ ret[1].is_file
    /\ ret[1].file_type = "pdf"

\* --------------------------------------------------------------------- C21
\* C21: the Result of a URL whose host is docs.google.com has is_google_doc
\* and is_google_drive set; the Result of a URL whose host is
\* drive.google.com has is_google_drive set and is_google_doc not set; and
\* is_google_doc implies is_google_drive for every Result.
C21_GoogleFlags ==
    ret # <<>> =>
        /\ netloc(arg.url) = "docs.google.com" =>
                ret[1].is_google_doc /\ ret[1].is_google_drive
        /\ netloc(arg.url) = "drive.google.com" =>
                ret[1].is_google_drive /\ ~ret[1].is_google_doc
        /\ ret[1].is_google_doc => ret[1].is_google_drive

\* --------------------------------------------------------------------- C22
\* The kinds either table gives the extensions found in the text s.
KindsIn(s) ==
    {file_extensions[k][2] : k \in Hits(file_extensions, s)}
      \cup {SearchResult_file_extensions[k][2] : k \in Hits(SearchResult_file_extensions, s)}

\* The kinds the parser's classifier has for the Google hosts.
CloudKinds == {"google_doc", "google_sheet", "google_slides", "google_drive",
               "google_form"}

\* C22: the kind of a Result is decided by the first of these tests that
\* matches: (1) an extension in the lower-cased URL or in the lower-cased
\* title (the Result is a file of a kind of such an extension); (2) a
\* Google host in the URL (a cloud kind); (3) a file word in the title (kind
\* unknown); (4) otherwise the Result is no file.
C22_FixedOrder ==
    ret # <<>> =>
        LET url_lower == lower(arg.url)
            title_lower == lower(arg.title)
            cloud == \E pat \in google_patterns : str_in(pat, url_lower)
            word == \E w \in TitleWords : str_in(w, title_lower)
        IN  IF KindsIn(url_lower) \cup KindsIn(title_lower) # {}
            THEN /\ ret[1].is_file
                 /\ ret[1].file_type \in KindsIn(url_lower) \cup KindsIn(title_lower)
            ELSE IF cloud
            THEN ret[1].is_file /\ ret[1].file_type \in CloudKinds
            ELSE IF word
            THEN ret[1].is_file /\ ret[1].file_type = "unknown"
            ELSE ~ret[1].is_file /\ ret[1].file_type = None

\* --------------------------------------------------------------------- C23
\* C23: a call of to_params or to_form_data changes no field of the Query;
\* the pairs returned always have the key time_range, with the empty
\* string when the Query has no time range and with the range otherwise;
\* their pageno reads as the page number the Query had when called; and two
\* calls of the same method on a Query with the same fields return the
\* same pairs.
C23_Serialisers ==
    /\ [](\A k \in 1..Len(ret) :
            /\ "time_range" \in DOMAIN ret[k].pairs
            /\ ret[k].pairs["time_range"] =
                  (IF ret[k].self.time_range = None THEN "" ELSE ret[k].self.time_range)
            /\ "pageno" \in DOMAIN ret[k].pairs
            /\ int(ret[k].pairs["pageno"]) = ret[k].self.pageno
            /\ \A h \in 1..Len(ret) :
                  (ret[h].method = ret[k].method /\ ret[h].self = ret[k].self) =>
                      ret[h].pairs = ret[k].pairs)
    /\ [][Len(ret') > Len(ret) => arg' = arg]_vars

\* A Query without time range was serialised by to_params when its page
\* number was 1 and by to_form_data after the page number had become 2.
C23_Witness ==
    /\ Len(ret) = 2
    /\ arg.time_range = None
    /\ ret[1].method = "to_params"
    /\ ret[1].self.pageno = 1
    /\ ret[2].method = "to_form_data"
    /\ ret[2].self.pageno = 2
    /\ ret[2].pairs["pageno"] = <<"2">>

\* --------------------------------------------------------------------- C24
\* The sum of a sequence of fractions with denominator 1.
RECURSIVE SumOf(_)
SumOf(seq) == IF seq = <<>> THEN 0 ELSE seq[1].num + SumOf(Tail(seq))

\* C24: after n pages the entry counts n queries and its avg_response_time
\* is the arithmetic mean of the n response times (avg * n = their sum); in
\* particular 1, 2, 3 give 1, then 3/2, then exactly 2.
C24_RunningMean ==
    /\ ret.queries = Len(arg)
    /\ arg # <<>> =>
          ret.avg_response_time.num * Len(arg) = SumOf(arg) * ret.avg_response_time.den
    /\ arg = <<Frac(1, 1)>> => ret.avg_response_time = [num |-> 1, den |-> 1]
    /\ arg = <<Frac(1, 1), Frac(2, 1)>> => ret.avg_response_time = [num |-> 3, den |-> 2]
    /\ arg = <<Frac(1, 1), Frac(2, 1), Frac(3, 1)>> =>
          ret.avg_response_time = [num |-> 2, den |-> 1]

\* Three pages with response times 1, 2 and 3 have been folded in.
C24_Witness ==
    /\ arg = <<Frac(1, 1), Frac(2, 1), Frac(3, 1)>>
    /\ ret.queries = 3
    /\ ret.avg_response_time = [num |-> 2, den |-> 1]

\* --------------------------------------------------------------------- C25
\* The statistics of a scraper just constructed.
FreshStats == [total_queries |-> 0, total_results |-> 0, instance_stats |-> <<>>]

\* C25 (as claimed): when search_multiple_instances is called, the
\* statistics it starts from are fresh: no entry and every total zero.
C25_FreshPerInvocation ==
    [][(orch = "idle" /\ orch' # "idle") => stats' = FreshStats]_vars

\* C25 (amended): the statistics live as long as the scraper and only
\* grow: the call of search_multiple_instances leaves them as they are, no
\* step removes an entry or lowers a counter, and a run whose key already
\* has an entry starts from that entry as it is.
C25_StatsCumulative ==
    [][/\ (orch = "idle" /\ orch' # "idle") => stats' = stats
       /\ stats'.total_queries >= stats.total_queries
       /\ stats'.total_results >= stats.total_results
       /\ \A key \in DOMAIN stats.instance_stats :
            /\ key \in DOMAIN stats'.instance_stats
            /\ stats'.instance_stats[key].queries >= stats.instance_stats[key].queries
            /\ stats'.instance_stats[key].results >= stats.instance_stats[key].results
            /\ stats'.instance_stats[key].errors >= stats.instance_stats[key].errors
       /\ \A i \in Inst :
            (pc[i] = "idle" /\ pc'[i] # "idle" /\ Key(i) \in DOMAIN stats.instance_stats) =>
                stats' = stats]_vars

\* Two runs for the same key have ended and the one entry holds the pages
\* of both; search_multiple_instances has been called as well.
C25_Witness ==
    /\ Key(1) = Key(2)
    /\ \A i \in Inst : pc[i] = "done" /\ Len(requests[i]) = 2
    /\ stats.instance_stats[Key(1)].queries >= 3
    /\ OrchEnded

\* --------------------------------------------------------------------- C26
\* What run i has added to the counters so far: the results it handed over
\* and was resumed after, the requests answered with status 200, and its
\* failure.
CountedResults(i) ==
    IF pc[i] \in {"yielding", "abandoned"} THEN Len(delivered[i]) - 1
    ELSE Len(delivered[i])

CountedQueries(i) ==
    IF pc[i] \in {"fetching", "failed"} THEN Len(requests[i]) - 1
    ELSE Len(requests[i])

CountedErrors(i) == IF pc[i] = "failed" THEN 1 ELSE 0

RECURSIVE SumOver(_, _)
SumOver(S, f) ==
    IF S = {} THEN 0
    ELSE LET x == CHOOSE y \in S : TRUE IN f[x] + SumOver(S \ {x}, f)

Counted == [results |-> [i \in Inst |-> CountedResults(i)],
            queries |-> [i \in Inst |-> CountedQueries(i)],
            errors |-> [i \in Inst |-> CountedErrors(i)]]

\* The runs that write the entry of a key.
WritersOf(key) == {i \in Inst : pc[i] # "idle" /\ Key(i) = key}

\* C26 (as claimed): every entry has one Pager that writes it, and the
\* totals of the run are written by no Pager (only by a step of
\* search_multiple_instances).
C26_SingleWriter ==
    /\ [](\A key \in DOMAIN stats.instance_stats : Cardinality(WritersOf(key)) <= 1)
    /\ [][stats'.total_results # stats.total_results => orch' # orch]_vars

\* C26 (amended): the counters are shared.  total_results is incremented
\* by every Pager, the entry of a key by every Pager whose instance has that
\* name and URL, also while several of them are in flight; every increment
\* is carried out whole between two suspension points, so none is lost:
\* each counter is the sum of what its writers have added.  No Pager writes
\* total_queries.
C26_SharedCounters ==
    /\ [](/\ stats.total_results = SumOver(Inst, Counted.results)
          /\ DOMAIN stats.instance_stats = {Key(i) : i \in {j \in Inst : pc[j] # "idle"}}
          /\ \A key \in DOMAIN stats.instance_stats :
                /\ stats.instance_stats[key].results = SumOver(WritersOf(key), Counted.results)
                /\ stats.instance_stats[key].queries = SumOver(WritersOf(key), Counted.queries)
                /\ stats.instance_stats[key].errors = SumOver(WritersOf(key), Counted.errors))
    /\ [][stats'.total_queries # stats.total_queries => orch' # orch]_vars

\* Two runs for the same name and URL are in flight together, each has had
\* a result counted, and the shared entry holds the results of both.
C26_Witness ==
    /\ Key(1) = Key(2)
    /\ \A i \in Inst : pc[i] \in {"fetching", "yielding", "sleeping"} /\ CountedResults(i) >= 1
    /\ stats.instance_stats[Key(1)].results = CountedResults(1) + CountedResults(2)
    /\ stats.total_results = stats.instance_stats[Key(1)].results

\* C27: a snapshot returned by get_stats is isolated from the scraper:
\* while a consumer holds it, a step of the scraper changes nothing the
\* consumer reads from it (run totals and per-instance counters), and a
\* step of the consumer on the snapshot changes nothing in the scraper's
\* own statistics.
C27_SnapshotIsolated ==
    [][(ret # <<>> /\ ret' # <<>>) =>
          /\ ret' = ret => Read(ret'[1], stats') = Read(ret[1], stats)
          /\ UNCHANGED <<pagerVars, orchVars>> => stats' = stats]_vars

\* C28 as stated: the session is acquired once per scraper lifetime: at
\* most one session is open at a time (a session is made only while none
\* is open), a start on an open session keeps it, a close with no open
\* session changes nothing, the scraper never makes a second session, and
\* once a session has been closed none is open afterwards.
C28_AcquiredOnce ==
    [][/\ session'.created # session.created =>
              ~session.open /\ session'.open
                            /\ session'.created = session.created + 1
       /\ session'.created <= 1
       /\ (~session.open /\ session.created >= 1) => ~session'.open]_vars

\* C28, amended: a session is made only while none is open (so at most
\* one is open at a time, and a start on an open session keeps that
\* session); a step that leaves the session closed or absent leaves it as
\* it was; a session is open only after it was made; a closed session
\* stays closed until the next start, which makes a new one.
C28_OneOpenSession ==
    /\ [](session.open => session.created >= 1)
    /\ [][/\ session'.created # session.created =>
                 ~session.open /\ session'.open
                               /\ session'.created = session.created + 1
          /\ (session.open /\ session'.open) => session' = session
          /\ (~session.open /\ ~session'.open) => session' = session
          /\ (session.open /\ ~session'.open) =>
                 session'.created = session.created]_vars

\* A second session is open: the first was closed and a later call started
\* the session again.
C28_Witness == session.open /\ session.created = 2

\* C29: with several runs of search_instance in flight on one shared Query,
\* every request a run sends carries that run's own page counter, whatever
\* the other runs have written to the Query: at the step that sends it, and
\* for as long as the run waits for its answer.
C29_OwnPageSent ==
    /\ [](\A i \in Inst :
            pc[i] = "fetching" => requests[i][Len(requests[i])].pageno = page[i])
    /\ [][\A i \in Inst :
            requests'[i] # requests[i] =>
                requests'[i][Len(requests'[i])].pageno = page'[i]]_vars

\* Two runs wait for their answers at once with different page counters,
\* and the Query holds the page number of the run that wrote last.
C29_Witness ==
    \E i \in Inst : \E j \in Inst \ {i} :
        /\ pc[i] = "fetching" /\ pc[j] = "fetching"
        /\ page[i] = 2 /\ page[j] = 1
        /\ query.pageno = 1
        /\ requests[i][2].pageno = 2

\* C30: once search_multiple_instances has been started it eventually
\* completes (it ends as a generator does, not with an exception), the
\* generator of every active instance having obtained its permit, run and
\* finished.
C30_OrchestratorCompletes ==
    (orch # "idle") ~> (orch = "done" /\ \A i \in Active : tasks[i] = "done")

\* --------------------------------------------------------------------- C31
\* The sum of the results counters of the instance entries.
ResultsOfEntries(st) ==
    SumOver(DOMAIN st.instance_stats,
            [key \in DOMAIN st.instance_stats |-> st.instance_stats[key].results])

\* C31: while the entry of a run's instance is there (no reset_stats since
\* the run began), its results counter is the number of results handed to
\* the consumer or 1 less, and the two are equal once the run has ended by
\* itself; and total_results is always the sum of the results counters of
\* the entries there are.
C31_ResultsCounted ==
    /\ \A i \in Inst :
          (pc[i] # "idle" /\ Key(i) \in DOMAIN stats.instance_stats) =>
              /\ stats.instance_stats[Key(i)].results
                     \in {Len(delivered[i]), Len(delivered[i]) - 1}
              /\ pc[i] \in {"done", "failed"} =>
                     stats.instance_stats[Key(i)].results = Len(delivered[i])
    /\ stats.total_results = ResultsOfEntries(stats)

\* --------------------------------------------------------------------- C33
\* C33: a call of reset_stats leaves zero totals and no instance entry,
\* whatever the runs in flight are doing, and no exception escapes a run
\* of search_instance afterwards (it goes on, or ends as done or failed).
C33_ResetAnyTime ==
    /\ [](\A i \in Inst : pc[i] # "raised")
    /\ [][(UNCHANGED <<pagerVars, orchVars>> /\ stats' # stats) =>
              /\ stats'.total_queries = 0
              /\ stats'.total_results = 0
              /\ DOMAIN stats'.instance_stats = {}]_vars

\* --------------------------------------------------------------------- C32
\* The answer run i is waiting for.
PendingAnswer(i) == Response(site[i], layout, requests[i][Len(requests[i])].pageno)

\* C32: in a run every request is counted exactly once: when its answer
\* arrives either queries grows by 1 (status 200, the closing page without
\* results included) or errors grows by 1 (another status, a timeout, a
\* connection failure), never both and never neither; so the requests
\* answered are queries + errors, and errors is at most 1.
C32_EveryRequestCounted ==
    /\ [](\A i \in Inst :
            Key(i) \in DOMAIN stats.instance_stats =>
                /\ EntryOf(i).queries + EntryOf(i).errors =
                       Len(requests[i]) - (IF pc[i] = "fetching" THEN 1 ELSE 0)
                /\ EntryOf(i).errors <= 1)
    /\ [][\A i \in Inst :
            (pc[i] = "fetching" /\ pc'[i] # "fetching") =>
                IF PendingAnswer(i).kind = "response" /\ PendingAnswer(i).status = 200
                THEN /\ EntryOf(i)'.queries = EntryOf(i).queries + 1
                     /\ EntryOf(i)'.errors = EntryOf(i).errors
                ELSE /\ EntryOf(i)'.queries = EntryOf(i).queries
                     /\ EntryOf(i)'.errors = EntryOf(i).errors + 1]_vars

\* A run of two requests: the page with results was counted as fetched,
\* the second request failed and was counted as the error; the other run
\* ended on a page without results, which was counted as fetched.
C32_Witness ==
    \E i \in Inst : \E j \in Inst \ {i} :
        /\ pc[i] = "failed" /\ Len(requests[i]) = 2
        /\ EntryOf(i).queries = 1 /\ EntryOf(i).errors = 1
        /\ pc[j] = "done" /\ Len(requests[j]) = 2 /\ Len(delivered[j]) = Len(layout)
        /\ instances[j].is_active
        /\ EntryOf(j).queries = 2 /\ EntryOf(j).errors = 0

\* --------------------------------------------------------------------- C34
\* C34: a call of search_multiple_instances without an active instance
\* returns with an empty sequence, no request and every statistic as it
\* was (total_queries included); a call with active instances has, when it
\* ends, run the generator of exactly the active ones.
C34_ActiveOnly ==
    /\ [][(orch = "idle" /\ orch' # "idle" /\ Active = {}) =>
              /\ orch' = "done"
              /\ merged' = <<>>
              /\ requests' = requests
              /\ stats' = stats]_vars
    /\ [](OrchEnded =>
              \A i \in Inst : i \in Active <=> tasks[i] \notin {"none", "idle"})

\* --------------------------------------------------------------------- C35
\* C35: the Result built for a container has is_file = true exactly when
\* its file_type is present, whether the parser's classifier assigned the
\* kind or the fallback of the Result's constructor did.
C35_FlagIffKind ==
    ret # <<>> => (ret[1].is_file <=> ret[1].file_type # None)

\* The parser's classifier found no kind and the fallback of the
\* constructor assigned one.
C35_Witness ==
    /\ ret # <<>>
    /\ _identify_file_type(arg.url, arg.title) = [is_file |-> FALSE, file_type |-> None]
    /\ ret[1].is_file
    /\ ret[1].file_type # None

\* --------------------------------------------------------------------- C36
\* C36: a run called with a positive max_pages is capped by it; a run
\* called without max_pages or with 0 is capped by the configured default
\* and requests page 1; a run called with a negative max_pages requests
\* no page and ends.  No run issues more requests than its cap.
C36_PageCap ==
    \A i \in Inst :
        (pc[i] # "idle" /\ instances[i].is_active) =>
            /\ arg > 0 => max_pages[i] = arg
            /\ arg = 0 => max_pages[i] = DefaultMaxPages /\ requests[i] # <<>>
            /\ arg < 0 => requests[i] = <<>> /\ pc[i] = "done"
            /\ arg >= 0 => Len(requests[i]) <= max_pages[i]
            /\ (arg >= 0 /\ site[i].pages >= max_pages[i] /\ pc[i] = "done") =>
                   Len(requests[i]) = max_pages[i]

\* A call without max_pages ran to the configured default, a page further
\* than a call with max_pages = 1 would have gone.
C36_Witness ==
    \E i \in Inst :
        /\ arg = 0
        /\ pc[i] = "done"
        /\ Len(requests[i]) = DefaultMaxPages
        /\ DefaultMaxPages > 1

====
